---- MODULE Spec2Model ----
(***************************************************************************)
(* express-primer: the request pipeline of one mounted route.              *)
(*                                                                         *)
(* An Endpoint is constructed, its middleware is created once, the Router  *)
(* is mounted with a list of caller-supplied error handlers, and one       *)
(* request travels through: request validation, the handler, outcome       *)
(* normalisation, response validation and emission, or the error channel   *)
(* (caller-supplied error handlers, then the terminal stage of mount).     *)
(***************************************************************************)
EXTENDS Integers, Sequences, FiniteSets, TLC

\* ------------------------------------------------------------------ bounds
\* At most this many request facets of an endpoint declare a schema.
MaxDeclared == 1
\* At most this many facets of an incoming request differ from a valid value.
MaxOdd == 1
\* At most this many error handlers are passed to mount().
MaxErrorHandlers == 2
\* At most this many configuring calls (group, use, secure, route) are made.
MaxCalls == 3
\* At most this many requests to one route are in flight together.
MaxInFlight == 2

VARIABLES
    endpoint,     \* the Endpoint instance: schemas, options, handler
    nHandlers,    \* number of error handlers given to mount(errorHandlers)
    req,          \* the live request object (facet -> value), mutated in place
    req0,         \* the request as it arrived (history)
    pc,           \* position of the request in the pipeline
    chain,        \* value carried by the promise chain of the middleware
    handlerSaw,   \* the request objects handler(req) was invoked with (history)
    res,          \* the response object
    writes,       \* every write to res, with the stage that made it (history)
    nextCalls,    \* errors the endpoint middleware passed to next (history)
    errIdx,       \* index of the error-handling stage the error is at
    errInFlight,  \* the error travelling down the error channel
    escalated,    \* errors the terminal stage passed on to next (history)
    terminalSaw,  \* <<error, headersSent>> as they reached the terminal stage
    handlersRan,  \* positions of the caller's error handlers that ran (history)
    nodes,        \* the Router nodes: the root and those group() created
    docs,         \* the documents ever allocated; a node's spec is an index
    table,        \* the routing table: one entry per (uri, method) registered
    clock,        \* number of configuring calls made so far
    origins,      \* per middleware function: the node and time it was added (history)
    routed,       \* every route() call with its result (history)
    secured,      \* every secure() call (history)
    phase,        \* "configuring" until mount(), then "mounted"
    request,      \* the table entry serving the request in flight (0: none)
    stack,        \* the stack the route's handler built for the request
    index,        \* the handler's index into stack
    ran,          \* the middleware functions that ran for the request (history)
    outcome,      \* how the request left the route's handler
    nextArgs,     \* what the handler passed to the framework's next (history)
    input,        \* the route() call under study in SpecParameters
    unfolded,     \* every unfold() call with its result (history)
    served,       \* the spec routes serveSpec() registered
    sent,         \* the responses of the spec routes (history)
    flights,      \* the requests to one route that are being handled together
    validators    \* the errors property of the route's compiled validators

\* The state of one request travelling through a mounted route.
pipeline == <<endpoint, nHandlers, req, req0, pc, chain, handlerSaw, res, writes,
              nextCalls, errIdx, errInFlight, escalated, terminalSaw, handlersRan>>

\* The state around the document: unfold() calls and the served spec.
extras == <<unfolded, served, sent>>

\* The requests handled together and what they share.
traffic == <<flights, validators>>

\* The state built by the calls that configure a Router.
registry == <<nodes, docs, table, clock, origins, routed, secured, phase, request,
              stack, index, ran, outcome, nextArgs, input, extras, traffic>>

vars == <<pipeline, registry>>

\* ------------------------------------------------------------ value space
\* The request facets an endpoint can declare a schema for.
Facets == {"query", "params", "headers", "cookies", "signedCookies", "body"}

\* A facet of a request: not present on the request object, present and
\* rejected by a declared schema, present and accepted after type coercion or
\* default injection ("raw"), present and accepted as is.
FacetValues == {"absent", "bad", "raw", "ok"}

\* The JavaScript value undefined, where a string is expected.
Undefined == "<undefined>"

\* An optional value: JavaScript undefined, or a defined value.
None == [defined |-> FALSE, value |-> {}]
Some(v) == [defined |-> TRUE, value |-> v]

\* ------------------------------------------------------------ error model
EndpointError(code, message, details) ==
    [type |-> "EndpointError", code |-> code, message |-> message, details |-> details]

\* new EndpointError(): every parameter takes its default.
DefaultEndpointError == EndpointError(500, "An internal error occurred.", <<>>)

\* Faulty variant: the error list is not handed to the superclass.
ValidationErrorNoDetails(errors, message, code) ==
    [EndpointError(code, message, <<>>) EXCEPT !.type = "ValidationError"]

\* Faulty variant: the code argument is ignored.
ValidationErrorAlways400(errors, message, code) ==
    [EndpointError(400, message, errors) EXCEPT !.type = "ValidationError"]

\* class ValidationError extends EndpointError: super(code, message, errors).
ValidationError(errors, message, code) ==
    [EndpointError(code, message, errors) EXCEPT !.type = "ValidationError"]

\* new ValidationError(errors): message and code take their defaults.
RequestValidationError(errors) ==
    ValidationError(errors, "This request is not valid.", 400)

\* err instanceof EndpointError (ValidationError is a subclass).
IsEndpointError(err) == err.type \in {"EndpointError", "ValidationError"}

\* A value that is no error: the placeholder of an empty slot.
NoError == [type |-> "none", code |-> 0, message |-> "", details |-> <<>>]

\* Values a handler throws or rejects with.
NotImplemented ==
    [type |-> "Error", code |-> 0,
     message |-> "Please provide a handler for this endpoint.", details |-> <<>>]
Boom == [type |-> "Error", code |-> 0, message |-> "boom!", details |-> <<"stack">>]
Unavailable == EndpointError(503, "hello", <<"foo">>)
Thrown == {NotImplemented, Boom, Unavailable,
           ValidationError(<<"foo">>, "This request is not valid.", 400)}

\* What res.set or res.send throws when the transport refuses the write.
TransportError ==
    [type |-> "Error", code |-> 0, message |-> "transport", details |-> <<"socket">>]

\* ---------------------------------------------------------- outcome value
\* class Response: constructor(body = '', code = 200, headers = {}).  The
\* code is always passed by the callers modelled here.
Response(body, code, headers) ==
    [body    |-> IF body = Undefined THEN "" ELSE body,
     code    |-> code,
     headers |-> IF headers.defined THEN headers.value ELSE {}]

NoResponse == [body |-> "", code |-> 0, headers |-> {}]

\* ---------------------------------------------------------------- payloads
\* What res.send puts on the wire: a plain value, or the JSON of an error.
Plain(v) == [kind |-> "plain", v |-> v, code |-> 0, message |-> "", details |-> <<>>]
\* EndpointError.toJSON, as res.send(err) serialises it.
toJSON(err) ==
    [kind |-> "json", v |-> "", code |-> err.code, message |-> err.message,
     details |-> err.details]
NoPayload == [kind |-> "none", v |-> "", code |-> 0, message |-> "", details |-> <<>>]

\* ------------------------------------------------------- Endpoint options
\* requestPropertiesToValidate of Endpoint.defaultOptions().
DefaultProperties == <<"query", "params", "headers", "cookies", "signedCookies">>

\* Endpoint.defaultOptions(): defaultResponseHeaders is not among the keys,
\* so it is undefined unless withDefaultOptions supplies it.
defaultOptions ==
    [validateResponse            |-> FALSE,
     defaultResponseCode         |-> 200,
     defaultResponseHeaders      |-> None,
     requestPropertiesToValidate |-> DefaultProperties]

\* Endpoint.withDefaultOptions(options): Object.assign(defaults, options).
withDefaultOptions(options) ==
    [k \in DOMAIN defaultOptions |->
        IF k \in DOMAIN options THEN options[k] ELSE defaultOptions[k]]

\* --------------------------------------------------- composite request schema
RECURSIVE requestSchemaReduce(_, _, _)
requestSchemaReduce(ep, i, schema) ==
    LET props == ep.options.requestPropertiesToValidate IN
    IF i > Len(props) THEN schema
    ELSE LET property       == props[i]
             propertySchema == ep.schemas[property]
         IN requestSchemaReduce(ep, i + 1,
              [order      |-> IF property \in DOMAIN schema.properties
                                THEN schema.order
                                ELSE Append(schema.order, property),
               properties |-> (property :> (IF propertySchema # "null"
                                              THEN propertySchema ELSE "{}"))
                              @@ schema.properties,
               required   |-> IF propertySchema # "null"
                                THEN Append(schema.required, property)
                                ELSE schema.required])

\* Faulty variant: every listed property is pushed to required, declared or not.
RECURSIVE requestSchemaAllRequiredReduce(_, _, _)
requestSchemaAllRequiredReduce(ep, i, schema) ==
    LET props == ep.options.requestPropertiesToValidate IN
    IF i > Len(props) THEN schema
    ELSE LET property       == props[i]
             propertySchema == ep.schemas[property]
         IN requestSchemaAllRequiredReduce(ep, i + 1,
              [order      |-> Append(schema.order, property),
               properties |-> (property :> (IF propertySchema # "null"
                                              THEN propertySchema ELSE "{}"))
                              @@ schema.properties,
               required   |-> Append(schema.required, property)])

EmptyObjectSchema == [order |-> <<>>, properties |-> <<>>, required |-> <<>>]

requestSchemaAllRequired(ep) == requestSchemaAllRequiredReduce(ep, 1, EmptyObjectSchema)

\* Endpoint.requestSchema(): {type: 'object', properties, required}; order is
\* the insertion order of the keys of properties.
requestSchema(ep) == requestSchemaReduce(ep, 1, EmptyObjectSchema)

\* --------------------------------------------------------------- validators
\* The validator compiled from the composite schema, with coerceTypes and
\* useDefaults on and allErrors off: "required" is checked first, then each
\* property in key order; the run stops at the first error, and coercions made
\* before it stay on the data.
RECURSIVE FirstMissing(_, _, _)
FirstMissing(required, data, i) ==
    IF i > Len(required) THEN 0
    ELSE IF data[required[i]] = "absent" THEN i
    ELSE FirstMissing(required, data, i + 1)

RECURSIVE ValidateProperties(_, _, _)
ValidateProperties(schema, data, i) ==
    IF i > Len(schema.order) THEN [valid |-> TRUE, errors |-> <<>>, data |-> data]
    ELSE LET p == schema.order[i] IN
         IF schema.properties[p] = "{}" \/ data[p] \in {"absent", "ok"}
           THEN ValidateProperties(schema, data, i + 1)
         ELSE IF data[p] = "raw"
           THEN ValidateProperties(schema, [data EXCEPT ![p] = "ok"], i + 1)
         ELSE [valid |-> FALSE, errors |-> <<"invalid:" \o p>>, data |-> data]

requestValidator(schema, data) ==
    LET m == FirstMissing(schema.required, data, 1) IN
    IF m # 0
      THEN [valid |-> FALSE, errors |-> <<"required:" \o schema.required[m]>>,
            data |-> data]
      ELSE ValidateProperties(schema, data, 1)

\* Endpoint.createRequestValidator: compile(this.requestSchema()).
createRequestValidator(ep, data) == requestValidator(requestSchema(ep), data)

\* A validator compiled from a response-code schema.  The body is the
\* JavaScript value handed to res.send; what the validator coerces inside an
\* object body changes that same object in place.
responseValidator(body) ==
    IF body = "bad"
      THEN [valid |-> FALSE, errors |-> <<"invalid:response">>]
      ELSE [valid |-> TRUE, errors |-> <<>>]

\* ------------------------------------------------------------ input spaces
Codes == {200, 201}
Bodies == {Undefined, "", "hi", "bad"}
HeaderSets == {{}, {"a"}}

\* What handler(req) produces once it settles.
Returns(b) == [kind |-> "value", body |-> b, response |-> NoResponse, err |-> NoError]
ReturnsResponse(r) == [kind |-> "response", body |-> "", response |-> r, err |-> NoError]
Throws(e) == [kind |-> "throw", body |-> "", response |-> NoResponse, err |-> e]

HandlerResults ==
    {Returns(b) : b \in Bodies}
    \cup {ReturnsResponse(Response(b, c, Some(h))) :
            b \in {"hi", "bad"}, c \in Codes, h \in HeaderSets}
    \cup {Throws(e) : e \in Thrown}

\* A handler answers in the same tick ("sync"), through an awaitable that
\* settles later ("async"), or through an awaitable that never settles.
Handlers ==
    {[mode |-> m, result |-> r] : m \in {"sync", "async"}, r \in HandlerResults}
    \cup {[mode |-> "never", result |-> Returns("hi")]}

NoSchemas == [f \in Facets |-> "null"]

SchemaSets ==
    {s \in [Facets -> {"null", "S"}] :
        Cardinality({f \in Facets : s[f] # "null"}) <= MaxDeclared}

Requests ==
    {r \in [Facets -> FacetValues] :
        Cardinality({f \in Facets : r[f] # "ok"}) <= MaxOdd}

AllOk == [f \in Facets |-> "ok"]

\* Endpoints that vary on the request side: any bounded set of declared facet
\* schemas, with or without 'body' among the validated properties.
RequestSideEndpoints ==
    {[schemas |-> s,
      responseCodeSchemas |-> {},
      options |-> withDefaultOptions(o),
      handler |-> [mode |-> "sync", result |-> Returns("hi")]] :
        s \in SchemaSets,
        o \in {<<>>,
               [requestPropertiesToValidate |-> Append(DefaultProperties, "body")]}}

\* Endpoints that vary on the response side: every handler, every response
\* option, every set of declared response-code schemas.
ResponseSideEndpoints ==
    {[schemas |-> NoSchemas,
      responseCodeSchemas |-> rcs,
      options |-> withDefaultOptions(
                    [validateResponse       |-> vr,
                     defaultResponseCode    |-> dc,
                     defaultResponseHeaders |-> dh]),
      handler |-> h] :
        rcs \in SUBSET Codes, vr \in BOOLEAN, dc \in Codes,
        dh \in {None, Some({"d"})}, h \in Handlers}

\* ----------------------------------------------------- Router value space
\* A uri is the sequence of its characters, so that it is split and scanned
\* character by character as the code does.
RECURSIVE Str(_)
Str(cs) == IF cs = <<>> THEN "" ELSE Head(cs) \o Str(Tail(cs))

RECURSIVE StripLeading(_)
StripLeading(s) ==
    IF s # <<>> /\ Head(s) = "/" THEN StripLeading(Tail(s)) ELSE s

RECURSIVE StripTrailing(_)
StripTrailing(s) ==
    IF s # <<>> /\ s[Len(s)] = "/" THEN StripTrailing(SubSeq(s, 1, Len(s) - 1)) ELSE s

\* Faulty variant: the two uris are glued without a separator.
joinUrisGlued(from, to) == StripTrailing(StripLeading(from)) \o StripLeading(to)

\* function joinUris(from, to)
joinUris(from, to) == StripTrailing(StripLeading(from)) \o <<"/">> \o StripLeading(to)

\* String.prototype.split('/')
RECURSIVE split(_, _)
split(s, cur) ==
    IF s = <<>> THEN <<cur>>
    ELSE IF Head(s) = "/" THEN <<cur>> \o split(Tail(s), <<>>)
    ELSE split(Tail(s), Append(cur, Head(s)))

\* Array.prototype.join('/')
RECURSIVE join(_)
join(parts) ==
    IF parts = <<>> THEN ""
    ELSE IF Len(parts) = 1 THEN parts[1]
    ELSE parts[1] \o "/" \o join(Tail(parts))

\* Faulty variant: the list is taken as it is.
KeepAll(list, seen) == list

\* Array.from(new Set(list)): the first occurrence of each element is kept.
RECURSIVE Unique(_, _)
Unique(list, seen) ==
    IF list = <<>> THEN <<>>
    ELSE IF Head(list) \in seen THEN Unique(Tail(list), seen)
    ELSE <<Head(list)>> \o Unique(Tail(list), seen \cup {Head(list)})

\* The schema of a parameter descriptor: absent, the declaring object schema
\* (getParameters stores the whole resolved schema), or a string pattern.
NoParameterSchema == [type |-> Undefined, pattern |-> Undefined]
DeclaringSchema == [type |-> "object", pattern |-> Undefined]
PatternSchema(regex) == [type |-> "string", pattern |-> regex]

Descriptor(name, location, required, description, schema) ==
    [name |-> name, in |-> location, required |-> required,
     description |-> description, schema |-> schema]

\* An object schema an endpoint declares for one facet of the request:
\* its properties in declaration order and its list of required names.
ObjectSchema(properties, required) == [properties |-> properties, required |-> required]
NoObjectSchema == ObjectSchema(<<>>, {})
Property(name, description) == [name |-> name, description |-> description]

\* getParameters(location, schema)
getParameters(location, schema) ==
    [i \in 1..Len(schema.properties) |->
        Descriptor(schema.properties[i].name, location,
                   schema.properties[i].name \in schema.required,
                   schema.properties[i].description, DeclaringSchema)]

\* The loop over the characters of one ':' segment.  regex.open is
\* "regex !== null"; the scan stops at the first ')' after a '('.
RECURSIVE scanPlaceholder(_, _, _, _)
scanPlaceholder(p, x, paramName, regex) ==
    IF x > Len(p) THEN [paramName |-> paramName, regex |-> regex]
    ELSE IF p[x] = "(" THEN scanPlaceholder(p, x + 1, paramName, [open |-> TRUE, text |-> ""])
    ELSE IF regex.open
           THEN IF p[x] = ")" THEN [paramName |-> paramName, regex |-> regex]
                ELSE scanPlaceholder(p, x + 1, paramName,
                                     [regex EXCEPT !.text = @ \o p[x]])
    ELSE scanPlaceholder(p, x + 1, paramName \o p[x], regex)

\* Array.prototype.find(p => p.name === paramName), as an index (0: none).
RECURSIVE findByName(_, _, _)
findByName(list, name, i) ==
    IF i > Len(list) THEN 0
    ELSE IF list[i].name = name THEN i
    ELSE findByName(list, name, i + 1)

\* The merge of one placeholder into operation.parameters:
\* push when no descriptor has its name, else Object.assign onto the found one.
mergePlaceholder(parameters, paramName, regex) ==
    LET exists == findByName(parameters, paramName, 1)
        hasRegex == regex.open /\ regex.text # ""
    IN IF exists = 0
         THEN Append(parameters,
                     Descriptor(paramName, "path", TRUE, Undefined,
                                IF hasRegex THEN PatternSchema(regex.text)
                                ELSE NoParameterSchema))
         ELSE [parameters EXCEPT
                 ![exists] = [@ EXCEPT !.in = "path", !.required = TRUE,
                                       !.schema = IF hasRegex THEN PatternSchema(regex.text)
                                                  ELSE @]]

\* The map over the segments of the joined uri.  parameters.present is FALSE
\* once "delete operation.parameters" ran: reading .find of it then throws.
RECURSIVE mapSegments(_, _, _)
mapSegments(segments, i, acc) ==
    IF i > Len(segments) \/ acc.threw THEN acc
    ELSE LET p == segments[i] IN
         IF p = <<>> \/ Head(p) # ":"
           THEN mapSegments(segments, i + 1, [acc EXCEPT !.out = Append(@, Str(p))])
           ELSE IF ~acc.parameters.present
                  THEN [acc EXCEPT !.threw = TRUE]
                  ELSE LET s == scanPlaceholder(p, 2, "", [open |-> FALSE, text |-> ""]) IN
                       mapSegments(segments, i + 1,
                           [acc EXCEPT
                              !.parameters.list = mergePlaceholder(@, s.paramName, s.regex),
                              !.out = Append(@, "{" \o s.paramName \o "}")])

\* .filter(p => !!p)
RECURSIVE filterNonEmpty(_)
filterNonEmpty(parts) ==
    IF parts = <<>> THEN <<>>
    ELSE IF Head(parts) = "" THEN filterNonEmpty(Tail(parts))
    ELSE <<Head(parts)>> \o filterNonEmpty(Tail(parts))

\* operation.security: absent, or the list an operation carries.
NoSecurity == [declared |-> FALSE, list |-> <<>>]
Security(list) == [declared |-> TRUE, list |-> list]
Requirement(name, requirement) == [scheme |-> name, requirement |-> requirement]

\* A $ref string: its prefix, '#/' or OPEN_API_REFERENCE_ID followed by
\* '#/', and the keys the rest of it splits into at '/'.
Ref(prefix, keys) == [prefix |-> prefix, keys |-> keys]
LocalRef(name) == Ref("#/", <<"components", "schemas", name>>)
OpenApiRef(name) == Ref("OPEN_API_REFERENCE_ID#/", <<"components", "schemas", name>>)

\* A schema value: absent, an object carrying $ref, or a concrete schema, of
\* which route() reads description and contentMediaType.
NullSchema ==
    [kind |-> "null", ref |-> [prefix |-> "", keys |-> <<>>], description |-> Undefined,
     contentMediaType |-> Undefined]
Pointer(ref) == [NullSchema EXCEPT !.kind = "pointer", !.ref = ref]
Schema(description, contentMediaType) ==
    [NullSchema EXCEPT !.kind = "schema", !.description = description,
                       !.contentMediaType = contentMediaType]

\* unfold(obj) against the document spec, with the place of the result: at
\* is the name of the component the returned object is, "" when the object
\* is not part of the document.  A key the document lacks yields null.
RECURSIVE unfoldAt(_, _, _)
unfoldAt(obj, at, spec) ==
    IF obj.kind = "null" THEN [value |-> NullSchema, at |-> ""]
    ELSE IF obj.kind # "pointer" THEN [value |-> obj, at |-> at]
    ELSE LET keys == obj.ref.keys IN
         IF /\ Len(keys) = 3
            /\ keys[1] = "components"
            /\ keys[2] = "schemas"
            /\ keys[3] \in DOMAIN spec.schemas
           THEN unfoldAt(spec.schemas[keys[3]], keys[3], spec)
           ELSE [value |-> NullSchema, at |-> ""]

\* Faulty variant: one step of the chain only.
unfoldOnce(obj, spec) ==
    IF obj.kind # "pointer" THEN obj
    ELSE IF obj.ref.keys[3] \in DOMAIN spec.schemas THEN spec.schemas[obj.ref.keys[3]]
    ELSE NullSchema

\* unfold(obj, references = this.spec)
unfold(obj, spec) == unfoldAt(obj, "", spec).value

\* One entry of operation.responses.
DocumentedResponse(description, mediaType, schema, headers) ==
    [description |-> description, mediaType |-> mediaType, schema |-> schema,
     headers |-> headers]

\* operation.requestBody: absent, or the body documented under a media type.
NoRequestBody ==
    [present |-> FALSE, mediaType |-> Undefined, schema |-> NullSchema,
     description |-> Undefined, required |-> FALSE]
RequestBody(mediaType, schema, description, required) ==
    [present |-> TRUE, mediaType |-> mediaType, schema |-> schema,
     description |-> description, required |-> required]

\* What an endpoint's operation() returns, up to the fields route() reads.
Operation(tags, parameters, security) ==
    [tags |-> tags, parameters |-> parameters, security |-> security,
     responses |-> <<>>, requestBody |-> NoRequestBody]

\* Endpoint.defaultOptions(), the keys route() reads.
documentOptions ==
    [defaultResponseCode |-> 200,
     defaultResponseMediaType |-> "application/json",
     defaultRequestBodyMediaType |-> "application/json",
     requestBodyRequiredIfHasSchema |-> TRUE,
     responseHeaders |-> <<>>]

\* An Endpoint class as route() sees it: the schemas of the five request
\* facets it turns into parameters, and its operation().  Its
\* responseCodeSchemas() is a list of code and schema in key order; it
\* declares none, and no bodySchema(), unless stated.
RouterEndpoint(query, params, headers, cookies, signedCookies, operation) ==
    [querySchema |-> query, paramsSchema |-> params, headersSchema |-> headers,
     cookiesSchema |-> cookies, signedCookiesSchema |-> signedCookies,
     operation |-> operation, responseCodeSchemas |-> <<>>,
     bodySchema |-> NullSchema, options |-> documentOptions]

\* A Router as its constructor leaves it.  parent, groupUri, groupTags and
\* created are history: the node group() was called on, the uri and the tags
\* it was given, and when.
Router(spec) ==
    [tags |-> <<>>, uri |-> <<>>, securitySchemeName |-> "",
     securityRequirement |-> <<>>, middleware |-> <<>>, spec |-> spec,
     parent |-> 0, groupUri |-> <<>>, groupTags |-> <<>>, created |-> 0]

\* static defaultSpec(), up to info, paths, components.securitySchemes and
\* components.schemas.
defaultSpec ==
    [info |-> [title |-> "Express Primer App", version |-> "1.0.0"],
     paths |-> <<>>, securitySchemes |-> <<>>,
     schemas |-> [name \in {"EndpointError", "ValidationError"} |->
                    Schema(Undefined, Undefined)]]

\* obj[key] = value
Put(obj, key, value) ==
    [k \in DOMAIN obj \cup {key} |-> IF k = key THEN value ELSE obj[k]]

\* schema.contentMediaType || default
mediaTypeOf(schema, default) ==
    IF schema.contentMediaType # Undefined THEN schema.contentMediaType ELSE default

\* delete schema.contentMediaType on the object unfold returned: when the
\* object is a component of the document, it is the document that changes.
deleteContentMediaType(spec, at) ==
    IF at # "" /\ spec.schemas[at].contentMediaType # Undefined
      THEN [spec EXCEPT !.schemas[at].contentMediaType = Undefined]
      ELSE spec

\* The reduce over the codes of responseCodeSchemas().  acc carries the
\* document, the responses so far and whether a null schema was read.
RECURSIVE reduceResponses(_, _, _, _)
reduceResponses(schemas, i, E, acc) ==
    IF i > Len(schemas) \/ acc.threw THEN acc
    ELSE LET code == schemas[i].code
             u == unfoldAt(schemas[i].schema, "", acc.spec)
             schema == u.value
         IN IF schema.kind = "null" THEN [acc EXCEPT !.threw = TRUE]
            ELSE LET response ==
                        DocumentedResponse(
                            IF schema.description # Undefined THEN schema.description
                            ELSE "Response",
                            mediaTypeOf(schema, E.options.defaultResponseMediaType),
                            [schema EXCEPT !.contentMediaType = Undefined],
                            IF code \in DOMAIN E.options.responseHeaders
                              THEN E.options.responseHeaders[code] ELSE Undefined)
                 IN reduceResponses(schemas, i + 1, E,
                        [spec |-> deleteContentMediaType(acc.spec, u.at),
                         responses |-> Put(acc.responses, code, response),
                         threw |-> FALSE])

\* Faulty variant: an operation without responses is left without.
withFallbackResponseNever(responses, E) == responses

\* if (Object.keys(operation.responses).length === 0) ...
withFallbackResponse(responses, E) ==
    IF DOMAIN responses = {}
      THEN Put(<<>>, E.options.defaultResponseCode,
               DocumentedResponse("No schema given for response.", Undefined,
                                  NullSchema, Undefined))
      ELSE responses

\* if (bodySchema) { ... operation.requestBody = ... }: body is what unfold
\* returned at the start of route(), read again after the responses.
requestBodyOf(body, spec, E, declared) ==
    IF body.value.kind = "null" THEN declared
    ELSE LET bodySchema == IF body.at # "" THEN spec.schemas[body.at] ELSE body.value IN
         RequestBody(mediaTypeOf(bodySchema, E.options.defaultRequestBodyMediaType),
                     [bodySchema EXCEPT !.contentMediaType = Undefined],
                     bodySchema.description,
                     E.options.requestBodyRequiredIfHasSchema)

\* route(uri, Endpoint, methods), up to the registration itself: the
\* operation record, the document path and the document as the call leaves
\* it, or the fact that it threw.
routeOperation(node, uri, E, spec) ==
    LET operation == E.operation
        body == unfoldAt(E.bodySchema, "", spec)
        declared == getParameters("query", E.querySchema)
                    \o getParameters("path", E.paramsSchema)
                    \o getParameters("header", E.headersSchema)
                    \o getParameters("cookie", E.cookiesSchema)
                    \o getParameters("cookie", E.signedCookiesSchema)
                    \o operation.parameters
        reduced == reduceResponses(E.responseCodeSchemas, 1, E,
                                   [spec |-> spec, responses |-> operation.responses,
                                    threw |-> FALSE])
        mapped == IF reduced.threw
                    THEN [parameters |-> [present |-> FALSE, list |-> <<>>],
                          out |-> <<>>, threw |-> TRUE]
                    ELSE mapSegments(split(joinUris(node.uri, uri), <<>>), 1,
                                     [parameters |-> [present |-> declared # <<>>,
                                                      list |-> declared],
                                      out |-> <<>>, threw |-> FALSE])
    IN [threw |-> mapped.threw,
        path |-> "/" \o join(filterNonEmpty(mapped.out)),
        spec |-> IF reduced.threw THEN reduced.spec
                 ELSE deleteContentMediaType(reduced.spec, body.at),
        operation |->
            [tags |-> Unique(node.tags \o operation.tags, {}),
             parameters |-> mapped.parameters,
             security |-> IF node.securitySchemeName # "" /\ ~operation.security.declared
                            THEN Security(<<Requirement(node.securitySchemeName,
                                                        node.securityRequirement)>>)
                            ELSE operation.security,
             responses |-> withFallbackResponse(reduced.responses, E),
             requestBody |-> requestBodyOf(body, reduced.spec, E,
                                           operation.requestBody)]]

\* A Router right after "new Router()", nothing called on it yet.
Constructed ==
    /\ nodes = <<Router(1)>>
    /\ docs = <<defaultSpec>>
    /\ table = <<>>
    /\ clock = 0
    /\ origins = <<>>
    /\ routed = <<>>
    /\ secured = <<>>
    /\ phase = "configuring"
    /\ request = 0
    /\ stack = <<>>
    /\ index = 0
    /\ ran = <<>>
    /\ outcome = ""
    /\ nextArgs = <<>>
    /\ unfolded = <<>>
    /\ served = <<>>
    /\ sent = <<>>
    /\ flights = <<>>
    /\ validators = [request |-> <<>>, response |-> <<>>]

NoInput == [uri |-> <<>>, endpoint |-> 0, methods |-> <<>>]

\* ------------------------------------------------------------------- Init
NoChain == [tag |-> "none", body |-> "", response |-> NoResponse, err |-> NoError]

Init ==
    /\ \/ endpoint \in RequestSideEndpoints /\ req \in Requests
       \/ endpoint \in ResponseSideEndpoints /\ req = AllOk
    /\ nHandlers \in 0..MaxErrorHandlers
    /\ req0 = req
    /\ pc = "start"
    /\ chain = NoChain
    /\ handlerSaw = <<>>
    /\ res = [headers |-> {}, statusCode |-> 200, body |-> NoPayload, headersSent |-> FALSE]
    /\ writes = <<>>
    /\ nextCalls = <<>>
    /\ errIdx = 0
    /\ errInFlight = NoError
    /\ escalated = <<>>
    /\ terminalSaw = <<>>
    /\ handlersRan = <<>>
    /\ Constructed
    /\ input = NoInput

\* ---------------------------------------------------------------- actions
\* next(err) as the endpoint middleware calls it: the error enters the error
\* channel of the mounted app at its first error-handling stage.
CallNext(err) ==
    /\ nextCalls' = Append(nextCalls, err)
    /\ errInFlight' = err
    /\ errIdx' = 1
    /\ pc' = "errors"

\* Faulty variant: next(err) without return, so the chain still runs.
MiddlewareNoReturn ==
    /\ pc = "start"
    /\ LET v == createRequestValidator(endpoint, req) IN
         /\ req' = v.data
         /\ nextCalls' = IF v.valid THEN nextCalls
                         ELSE Append(nextCalls, RequestValidationError(v.errors))
         /\ pc' = "handler"
    /\ UNCHANGED <<registry, handlersRan, endpoint, nHandlers, req0, chain, handlerSaw, res, writes,
                   errIdx, errInFlight, escalated, terminalSaw>>

\* The function createMiddleware returns, up to Promise.resolve(req).
Middleware ==
    /\ pc = "start"
    /\ LET v == createRequestValidator(endpoint, req) IN
         /\ req' = v.data
         /\ IF ~v.valid
              THEN CallNext(RequestValidationError(v.errors))
              ELSE /\ pc' = "handler"
                   /\ UNCHANGED <<nextCalls, errInFlight, errIdx>>
    /\ UNCHANGED <<registry, handlersRan, endpoint, nHandlers, req0, chain, handlerSaw, res, writes,
                   escalated, terminalSaw>>

Resolved(r) ==
    [tag |-> r.kind, body |-> r.body, response |-> r.response, err |-> NoError]
Rejected(e) ==
    [tag |-> "error", body |-> "", response |-> NoResponse, err |-> e]

\* .then(req => this.handler(req))
InvokeHandler ==
    /\ pc = "handler"
    /\ handlerSaw' = Append(handlerSaw, req)
    /\ LET h == endpoint.handler IN
         IF h.mode = "sync"
           THEN IF h.result.kind = "throw"
                  THEN chain' = Rejected(h.result.err) /\ pc' = "catch"
                  ELSE chain' = Resolved(h.result) /\ pc' = "normalize"
           ELSE chain' = [NoChain EXCEPT !.tag = "pending"] /\ pc' = "await"
    /\ UNCHANGED <<registry, handlersRan, endpoint, nHandlers, req, req0, res, writes, nextCalls,
                   errIdx, errInFlight, escalated, terminalSaw>>

\* The awaitable the handler returned settles.
Settle ==
    /\ pc = "await"
    /\ endpoint.handler.mode = "async"
    /\ LET r == endpoint.handler.result IN
         IF r.kind = "throw"
           THEN chain' = Rejected(r.err) /\ pc' = "catch"
           ELSE chain' = Resolved(r) /\ pc' = "normalize"
    /\ UNCHANGED <<registry, handlersRan, endpoint, nHandlers, req, req0, handlerSaw, res, writes,
                   nextCalls, errIdx, errInFlight, escalated, terminalSaw>>

\* Faulty variant: a Response is wrapped again with the endpoint defaults.
NormalizeAlwaysWraps ==
    /\ pc = "normalize"
    /\ chain' = [chain EXCEPT
                   !.tag = "response",
                   !.response = Response(IF chain.tag = "response"
                                           THEN chain.response.body ELSE chain.body,
                                         endpoint.options.defaultResponseCode,
                                         endpoint.options.defaultResponseHeaders)]
    /\ pc' = "respond"
    /\ UNCHANGED <<registry, handlersRan, endpoint, nHandlers, req, req0, handlerSaw, res, writes,
                   nextCalls, errIdx, errInFlight, escalated, terminalSaw>>

\* Faulty variant: the configured defaults are ignored.
NormalizeFixedDefaults ==
    /\ pc = "normalize"
    /\ chain' = IF chain.tag = "response" THEN chain
                ELSE [chain EXCEPT !.tag = "response",
                                   !.response = Response(chain.body, 200, None)]
    /\ pc' = "respond"
    /\ UNCHANGED <<registry, handlersRan, endpoint, nHandlers, req, req0, handlerSaw, res, writes,
                   nextCalls, errIdx, errInFlight, escalated, terminalSaw>>

\* .then(body => body instanceof Response ? body : new Response(body, ...))
Normalize ==
    /\ pc = "normalize"
    /\ chain' = IF chain.tag = "response" THEN chain
                ELSE [chain EXCEPT
                        !.tag = "response",
                        !.response = Response(chain.body,
                                              endpoint.options.defaultResponseCode,
                                              endpoint.options.defaultResponseHeaders)]
    /\ pc' = "respond"
    /\ UNCHANGED <<registry, handlersRan, endpoint, nHandlers, req, req0, handlerSaw, res, writes,
                   nextCalls, errIdx, errInFlight, escalated, terminalSaw>>

Write(by, op) == [by |-> by, op |-> op]

\* Faulty variant: the validateResponse option is not consulted.
RespondAlwaysValidates ==
    /\ pc = "respond"
    /\ LET response == chain.response
           v        == responseValidator(response.body)
       IN IF /\ response.code \in endpoint.responseCodeSchemas
             /\ ~v.valid
            THEN /\ chain' = Rejected(ValidationError(v.errors,
                                "Response was not in the expected format.", 500))
                 /\ pc' = "catch"
                 /\ UNCHANGED <<res, writes>>
            ELSE \/ /\ res' = [headers     |-> res.headers \cup response.headers,
                               statusCode  |-> response.code,
                               body        |-> Plain(response.body),
                               headersSent |-> TRUE]
                    /\ writes' = writes \o <<Write("endpoint", "set"),
                                             Write("endpoint", "status"),
                                             Write("endpoint", "send")>>
                    /\ pc' = "done"
                    /\ chain' = chain
                 \/ /\ chain' = Rejected(TransportError)
                    /\ pc' = "catch"
                    /\ UNCHANGED <<res, writes>>
                 \/ /\ res' = [res EXCEPT !.headers = res.headers \cup response.headers,
                                          !.statusCode = response.code]
                    /\ writes' = writes \o <<Write("endpoint", "set"),
                                             Write("endpoint", "status")>>
                    /\ chain' = Rejected(TransportError)
                    /\ pc' = "catch"
    /\ UNCHANGED <<registry, handlersRan, endpoint, nHandlers, req, req0, handlerSaw, nextCalls,
                   errIdx, errInFlight, escalated, terminalSaw>>

\* .then(response => { validate; res.set(headers); res.status(code).send(body) })
\* res.set and res.send may throw; a write that throws leaves res as it was.
Respond ==
    /\ pc = "respond"
    /\ LET response == chain.response
           v        == responseValidator(response.body)
       IN IF /\ endpoint.options.validateResponse
             /\ response.code \in endpoint.responseCodeSchemas
             /\ ~v.valid
            THEN /\ chain' = Rejected(ValidationError(v.errors,
                                "Response was not in the expected format.", 500))
                 /\ pc' = "catch"
                 /\ UNCHANGED <<res, writes>>
            ELSE \/ /\ res' = [headers     |-> res.headers \cup response.headers,
                               statusCode  |-> response.code,
                               body        |-> Plain(response.body),
                               headersSent |-> TRUE]
                    /\ writes' = writes \o <<Write("endpoint", "set"),
                                             Write("endpoint", "status"),
                                             Write("endpoint", "send")>>
                    /\ pc' = "done"
                    /\ chain' = chain
                 \/ /\ chain' = Rejected(TransportError)
                    /\ pc' = "catch"
                    /\ UNCHANGED <<res, writes>>
                 \/ /\ res' = [res EXCEPT !.headers = res.headers \cup response.headers,
                                          !.statusCode = response.code]
                    /\ writes' = writes \o <<Write("endpoint", "set"),
                                             Write("endpoint", "status")>>
                    /\ chain' = Rejected(TransportError)
                    /\ pc' = "catch"
    /\ UNCHANGED <<registry, handlersRan, endpoint, nHandlers, req, req0, handlerSaw, nextCalls,
                   errIdx, errInFlight, escalated, terminalSaw>>

\* Faulty variant: the error is normalised before it is forwarded.
CatchWrapped ==
    /\ pc = "catch"
    /\ CallNext(IF IsEndpointError(chain.err) THEN chain.err ELSE DefaultEndpointError)
    /\ UNCHANGED <<registry, handlersRan, endpoint, nHandlers, req, req0, chain, handlerSaw, res, writes,
                   escalated, terminalSaw>>

\* Faulty variant: the chain ends without a catch, the rejection is dropped.
CatchDropped ==
    /\ pc = "catch"
    /\ pc' = "done"
    /\ UNCHANGED <<registry, handlersRan, endpoint, nHandlers, req, req0, chain, handlerSaw, res, writes,
                   nextCalls, errIdx, errInFlight, escalated, terminalSaw>>

\* .catch(next)
Catch ==
    /\ pc = "catch"
    /\ CallNext(chain.err)
    /\ UNCHANGED <<registry, handlersRan, endpoint, nHandlers, req, req0, chain, handlerSaw, res, writes,
                   escalated, terminalSaw>>

\* One of the error handlers given to mount(errorHandlers) runs.  It is the
\* caller's code: it passes the error on, answers the request itself, or
\* answers and still passes the error on.
ErrorHandler ==
    /\ pc = "errors"
    /\ errIdx <= nHandlers
    /\ handlersRan' = Append(handlersRan, errIdx)
    /\ \/ /\ errIdx' = errIdx + 1
          /\ UNCHANGED <<res, writes, pc>>
       \/ /\ ~res.headersSent
          /\ res' = [res EXCEPT !.body = Plain(errInFlight.message), !.headersSent = TRUE]
          /\ writes' = Append(writes, Write("errorHandler", "send"))
          /\ \/ pc' = "done" /\ errIdx' = errIdx
             \/ pc' = pc /\ errIdx' = errIdx + 1
    /\ UNCHANGED <<registry, endpoint, nHandlers, req, req0, chain, handlerSaw, nextCalls,
                   errInFlight, escalated, terminalSaw>>

\* Faulty variant: the instanceof test is missing.
NormalizeErrorIdentity(err) == err

\* if (!(err instanceof EndpointError)) err = new EndpointError();
NormalizeError(err) == IF IsEndpointError(err) THEN err ELSE DefaultEndpointError

\* Faulty variant: the headersSent test is missing.
TerminalStageNoGuard ==
    /\ pc = "errors"
    /\ errIdx = nHandlers + 1
    /\ terminalSaw' = Append(terminalSaw, [err |-> errInFlight, headersSent |-> res.headersSent])
    /\ LET err == NormalizeError(errInFlight) IN
         /\ res' = [res EXCEPT !.statusCode = err.code, !.body = toJSON(err),
                               !.headersSent = TRUE]
         /\ writes' = writes \o <<Write("terminal", "status"), Write("terminal", "send")>>
         /\ escalated' = IF res.headersSent THEN Append(escalated, err) ELSE escalated
    /\ pc' = "done"
    /\ UNCHANGED <<registry, handlersRan, endpoint, nHandlers, req, req0, chain, handlerSaw, nextCalls,
                   errIdx, errInFlight>>

\* Faulty variant: the stage is installed ahead of the caller's handlers.
TerminalStageFirst ==
    /\ pc = "errors"
    /\ errIdx = 1
    /\ terminalSaw' = Append(terminalSaw, [err |-> errInFlight, headersSent |-> res.headersSent])
    /\ LET err == NormalizeError(errInFlight) IN
         IF res.headersSent
           THEN /\ escalated' = Append(escalated, err)
                /\ UNCHANGED <<res, writes>>
           ELSE /\ res' = [res EXCEPT !.statusCode = err.code, !.body = toJSON(err),
                                      !.headersSent = TRUE]
                /\ writes' = writes \o <<Write("terminal", "status"),
                                         Write("terminal", "send")>>
                /\ UNCHANGED escalated
    /\ pc' = "done"
    /\ UNCHANGED <<registry, handlersRan, endpoint, nHandlers, req, req0, chain, handlerSaw, nextCalls,
                   errIdx, errInFlight>>

\* The last stage mount() installs: app.use((err, req, res, next) => ...).
TerminalStage ==
    /\ pc = "errors"
    /\ errIdx = nHandlers + 1
    /\ terminalSaw' = Append(terminalSaw, [err |-> errInFlight, headersSent |-> res.headersSent])
    /\ LET err == NormalizeError(errInFlight) IN
         IF res.headersSent
           THEN /\ escalated' = Append(escalated, err)
                /\ UNCHANGED <<res, writes>>
           ELSE /\ res' = [res EXCEPT !.statusCode = err.code, !.body = toJSON(err),
                                      !.headersSent = TRUE]
                /\ writes' = writes \o <<Write("terminal", "status"),
                                         Write("terminal", "send")>>
                /\ UNCHANGED escalated
    /\ pc' = "done"
    /\ UNCHANGED <<registry, handlersRan, endpoint, nHandlers, req, req0, chain, handlerSaw, nextCalls,
                   errIdx, errInFlight>>

Next ==
    \/ Middleware
    \/ InvokeHandler
    \/ Settle
    \/ Normalize
    \/ Respond
    \/ Catch
    \/ ErrorHandler
    \/ TerminalStage

Spec == Init /\ [][Next]_vars

\* ======================================================== the Router tree
\* An optional argument of a call: left out, or given with a value.
Omitted == [given |-> FALSE, value |-> <<>>]
Given(v) == [given |-> TRUE, value |-> v]

\* No request travels while the Router is configured.
NoTraffic ==
    /\ endpoint = 0 /\ nHandlers = 0 /\ req = 0 /\ req0 = 0 /\ pc = "idle"
    /\ chain = 0 /\ handlerSaw = <<>> /\ res = 0 /\ writes = <<>>
    /\ nextCalls = <<>> /\ errIdx = 0 /\ errInFlight = 0 /\ escalated = <<>>
    /\ terminalSaw = <<>> /\ handlersRan = <<>>

\* The nodes from n up to the root, n first.
RECURSIVE Lineage(_)
Lineage(n) == IF n = 0 THEN <<>> ELSE <<n>> \o Lineage(nodes[n].parent)

\* a is n itself or one of the nodes n was grouped under.
IsAncestorOrSelf(a, n) == \E i \in 1..Len(Lineage(n)) : Lineage(n)[i] = a

\* Faulty variant: the child keeps the document its constructor made.
groupOwnDocument(this, n, uri, tags, fresh, at) ==
    [Router(fresh) EXCEPT
        !.tags = this.tags \o tags.value,
        !.uri = joinUris(this.uri, IF uri.given THEN uri.value ELSE <<"/">>),
        !.middleware = this.middleware,
        !.parent = n, !.groupUri = IF uri.given THEN uri.value ELSE <<>>,
        !.groupTags = tags.value, !.created = at]

\* The Router that group(uri, closure, tags) builds and hands to closure.
\* fresh is the document "new this.constructor()" allocated for it.
group(this, n, uri, tags, fresh, at) ==
    [Router(fresh) EXCEPT
        !.spec = this.spec,
        !.tags = this.tags \o tags.value,
        !.uri = joinUris(this.uri, IF uri.given THEN uri.value ELSE <<"/">>),
        !.middleware = this.middleware,
        !.parent = n, !.groupUri = IF uri.given THEN uri.value ELSE <<>>,
        !.groupTags = tags.value, !.created = at]

\* group(uri, closure, tags) is called on node n.  What closure(router) does
\* are the calls that follow, on the child or on any other node.
Group(n, uri, tags) ==
    /\ phase = "configuring"
    /\ clock < MaxCalls
    /\ clock' = clock + 1
    /\ docs' = Append(docs, defaultSpec)
    /\ nodes' = Append(nodes, group(nodes[n], n, uri, tags, Len(docs) + 1, clock + 1))
    /\ UNCHANGED <<table, origins, routed, secured, phase, request, stack, index,
                   ran, outcome, nextArgs, input, pipeline, extras, traffic>>

\* this.middleware.concat(middleware) for k new functions, numbered as added.
concatMiddleware(chain_, k) == chain_ \o [i \in 1..k |-> Len(origins) + i]

\* Faulty variant: the chain is one list shared by every node.
UseShared(n, k) ==
    /\ phase = "configuring"
    /\ clock < MaxCalls
    /\ clock' = clock + 1
    /\ nodes' = [m \in 1..Len(nodes) |->
                    [nodes[m] EXCEPT !.middleware = concatMiddleware(@, k)]]
    /\ origins' = origins \o [i \in 1..k |-> [node |-> n, at |-> clock + 1]]
    /\ UNCHANGED <<docs, table, routed, secured, phase, request, stack, index,
                   ran, outcome, nextArgs, input, pipeline, extras, traffic>>

\* Faulty variant: the groups made from the node see the addition too.
UseRetroactive(n, k) ==
    /\ phase = "configuring"
    /\ clock < MaxCalls
    /\ clock' = clock + 1
    /\ nodes' = [m \in 1..Len(nodes) |->
                    IF IsAncestorOrSelf(n, m)
                      THEN [nodes[m] EXCEPT !.middleware = concatMiddleware(@, k)]
                      ELSE nodes[m]]
    /\ origins' = origins \o [i \in 1..k |-> [node |-> n, at |-> clock + 1]]
    /\ UNCHANGED <<docs, table, routed, secured, phase, request, stack, index,
                   ran, outcome, nextArgs, input, pipeline, extras, traffic>>

\* use(middleware) on node n, with one function or an array of k of them.
Use(n, k) ==
    /\ phase = "configuring"
    /\ clock < MaxCalls
    /\ clock' = clock + 1
    /\ nodes' = [nodes EXCEPT ![n].middleware = concatMiddleware(@, k)]
    /\ origins' = origins \o [i \in 1..k |-> [node |-> n, at |-> clock + 1]]
    /\ UNCHANGED <<docs, table, routed, secured, phase, request, stack, index,
                   ran, outcome, nextArgs, input, pipeline, extras, traffic>>

\* secure(middleware, securitySchemeName, securityScheme, securityRequirement)
\* on node n; it ends with this.use(middleware).
Secure(n, securitySchemeName, securityScheme, securityRequirement) ==
    /\ phase = "configuring"
    /\ clock < MaxCalls
    /\ clock' = clock + 1
    /\ docs' = [docs EXCEPT ![nodes[n].spec].securitySchemes =
                                Put(@, securitySchemeName, securityScheme)]
    /\ nodes' = [nodes EXCEPT ![n].securitySchemeName = securitySchemeName,
                              ![n].securityRequirement = securityRequirement,
                              ![n].middleware = concatMiddleware(@, 1)]
    /\ origins' = Append(origins, [node |-> n, at |-> clock + 1])
    /\ secured' = Append(secured, [node |-> n, at |-> clock + 1,
                                   name |-> securitySchemeName,
                                   scheme |-> securityScheme,
                                   requirement |-> securityRequirement])
    /\ UNCHANGED <<table, routed, phase, request, stack, index,
                   ran, outcome, nextArgs, input, pipeline, extras, traffic>>

\* String.prototype.toLowerCase on the method names in use.
toLowerCase(m) ==
    CASE m = "GET" -> "get"
      [] m = "POST" -> "post"
      [] OTHER -> m

\* this.spec.paths[path][method] = operation, for every method given.
writePaths(paths, path, methods, operation) ==
    LET keys == {<<path, toLowerCase(methods[i])>> : i \in 1..Len(methods)} IN
    [k \in DOMAIN paths \cup keys |-> IF k \in keys THEN operation ELSE paths[k]]

\* route(uri, Endpoint, methods) on node n.  When the call throws, it does so
\* before anything is registered, though after the contentMediaType of the
\* schemas it resolved was deleted.
Route(n, uri, E, methods) ==
    /\ phase = "configuring"
    /\ clock < MaxCalls
    /\ clock' = clock + 1
    /\ LET r == routeOperation(nodes[n], uri, E, docs[nodes[n].spec]) IN
         /\ routed' = Append(routed, [node |-> n, at |-> clock + 1, uri |-> uri,
                                      endpoint |-> E, methods |-> methods,
                                      threw |-> r.threw, path |-> r.path,
                                      operation |-> r.operation])
         /\ IF r.threw
              THEN /\ docs' = [docs EXCEPT ![nodes[n].spec] = r.spec]
                   /\ UNCHANGED table
              ELSE /\ table' = table \o [i \in 1..Len(methods) |->
                                           [node |-> n, uri |-> uri,
                                            method |-> toLowerCase(methods[i]),
                                            route |-> Len(routed) + 1]]
                   /\ docs' = [docs EXCEPT ![nodes[n].spec] =
                                   [r.spec EXCEPT !.paths =
                                       writePaths(@, r.path, methods, r.operation)]]
    /\ UNCHANGED <<nodes, origins, secured, phase, request, stack, index,
                   ran, outcome, nextArgs, input, pipeline, extras, traffic>>

\* mount(): from here on the application serves requests.
Mount ==
    /\ phase = "configuring"
    /\ phase' = "mounted"
    /\ UNCHANGED <<nodes, docs, table, clock, origins, routed, secured, request,
                   stack, index, ran, outcome, nextArgs, input, pipeline, extras, traffic>>

\* getSpec() on node n returns this.spec, the live document.
getSpec(n) == docs[nodes[n].spec]

\* router.unfold(obj) on the root: it reads the document and returns.
Unfold(obj) ==
    /\ clock < MaxCalls
    /\ clock' = clock + 1
    /\ unfolded' = Append(unfolded, [obj |-> obj, value |-> unfold(obj, getSpec(1)),
                                     spec |-> getSpec(1)])
    /\ UNCHANGED <<nodes, docs, table, origins, routed, secured, phase, request,
                   stack, index, ran, outcome, nextArgs, input, pipeline, served, sent, traffic>>

\* The endpoint's own middleware, last in every stack.
EndpointMiddleware == 0

\* const stack = this.middleware.concat([middleware]), built per request.
handlerStack(n) == Append(nodes[n].middleware, EndpointMiddleware)

\* Faulty variant: the chain is the one the node had when route() was called.
ReceiveChainAtRoute(r) ==
    /\ phase = "mounted"
    /\ request = 0
    /\ \A q \in 1..(r - 1) :
          ~(/\ table[q].node = table[r].node
            /\ table[q].uri = table[r].uri
            /\ table[q].method = table[r].method)
    /\ request' = r
    /\ stack' = Append(SelectSeq(nodes[table[r].node].middleware,
                                 LAMBDA m : origins[m].at < routed[table[r].route].at),
                       EndpointMiddleware)
    /\ index' = 0
    /\ UNCHANGED <<nodes, docs, table, clock, origins, routed, secured, phase,
                   ran, outcome, nextArgs, input, pipeline, extras, traffic>>

\* A request matches table entry r and its handler starts: advance().  Of
\* the handlers registered on one node for the same uri and method, the
\* framework calls the first; the others are reached only through next(),
\* which the endpoint's middleware calls with an error or not at all.
Receive(r) ==
    /\ phase = "mounted"
    /\ request = 0
    /\ \A q \in 1..(r - 1) :
          ~(/\ table[q].node = table[r].node
            /\ table[q].uri = table[r].uri
            /\ table[q].method = table[r].method)
    /\ request' = r
    /\ stack' = handlerStack(table[r].node)
    /\ index' = 0
    /\ UNCHANGED <<nodes, docs, table, clock, origins, routed, secured, phase,
                   ran, outcome, nextArgs, input, pipeline, extras, traffic>>

\* The error a middleware function passes to next.
MiddlewareError(m) == [type |-> "Error", by |-> m]

\* Faulty variant: advance runs the next function whatever it is given.
RunMiddlewareIgnoringError ==
    /\ request # 0
    /\ outcome = ""
    /\ stack[index + 1] # EndpointMiddleware
    /\ index' = index + 1
    /\ ran' = Append(ran, stack[index + 1])
    /\ \/ UNCHANGED <<outcome, nextArgs>>
       \/ /\ nextArgs' = Append(nextArgs, MiddlewareError(stack[index + 1]))
          /\ UNCHANGED outcome
       \/ outcome' = "answered" /\ UNCHANGED nextArgs
    /\ UNCHANGED <<nodes, docs, table, clock, origins, routed, secured, phase,
                   request, stack, input, pipeline, extras, traffic>>

\* stack[index++](req, res, advance) for a function of the node's chain.  It
\* calls next(), calls next(err), or answers the request and calls nothing.
RunMiddleware ==
    /\ request # 0
    /\ outcome = ""
    /\ stack[index + 1] # EndpointMiddleware
    /\ index' = index + 1
    /\ ran' = Append(ran, stack[index + 1])
    /\ \/ UNCHANGED <<outcome, nextArgs>>
       \/ /\ nextArgs' = Append(nextArgs, MiddlewareError(stack[index + 1]))
          /\ outcome' = "forwarded"
       \/ outcome' = "answered" /\ UNCHANGED nextArgs
    /\ UNCHANGED <<nodes, docs, table, clock, origins, routed, secured, phase,
                   request, stack, input, pipeline, extras, traffic>>

\* stack[index++](req, res, advance) for the endpoint's middleware: request
\* validation starts.
RunEndpoint ==
    /\ request # 0
    /\ outcome = ""
    /\ stack[index + 1] = EndpointMiddleware
    /\ index' = index + 1
    /\ outcome' = "endpoint"
    /\ UNCHANGED <<nodes, docs, table, clock, origins, routed, secured, phase,
                   request, stack, ran, nextArgs, input, pipeline, extras, traffic>>

\* ------------------------------------------------- configuring calls made
NoParameters == <<>>
PlainOperation == Operation(<<>>, NoParameters, NoSecurity)

\* An endpoint that declares nothing route() reads.
PlainEndpoint ==
    RouterEndpoint(NoObjectSchema, NoObjectSchema, NoObjectSchema, NoObjectSchema,
                   NoObjectSchema, PlainOperation)
\* operation() { return { tags: ['foo', 'baz'], security: [] } }
DeclaringEndpoint ==
    [PlainEndpoint EXCEPT !.operation.tags = <<"foo", "baz">>,
                          !.operation.security = Security(<<>>)]

TreeEndpoints == {PlainEndpoint, DeclaringEndpoint}
\* group(closure), group(closure, ['foo']) and group('/a', closure, ['bar'])
GroupArguments == {<<Omitted, Omitted>>, <<Omitted, Given(<<"foo">>)>>,
                   <<Given(<<"/", "a">>), Given(<<"bar">>)>>}
UseArities == {1, 2}
RouteUri == <<"/", "x">>

InitRouter ==
    /\ Constructed
    /\ NoTraffic
    /\ input = NoInput

NextRouter ==
    \/ \E n \in 1..Len(nodes), a \in GroupArguments : Group(n, a[1], a[2])
    \/ \E n \in 1..Len(nodes), k \in UseArities : Use(n, k)
    \/ \E n \in 1..Len(nodes) : Secure(n, "apiKey", "apiKeyScheme", <<"read">>)
    \/ \E n \in 1..Len(nodes), E \in TreeEndpoints : Route(n, RouteUri, E, <<"get">>)
    \/ Mount
    \/ \E r \in 1..Len(table) : Receive(r)
    \/ RunMiddleware
    \/ RunEndpoint

SpecRouter == InitRouter /\ [][NextRouter]_vars

\* ------------------------------------------------- documented operations
\* new Router(components): the schemas given are assigned into
\* components.schemas of the default document.
withComponents(spec, schemas) ==
    [spec EXCEPT !.schemas = [name \in DOMAIN @ \cup DOMAIN schemas |->
                                IF name \in DOMAIN schemas THEN schemas[name] ELSE @[name]]]

\* { Csv: { description, contentMediaType: 'text/csv' }, Alias: { $ref: Csv },
\*   Link: { $ref: Alias } }
Components ==
    [name \in {"Csv", "Alias", "Link"} |->
        CASE name = "Csv" -> Schema("CSV export", "text/csv")
          [] name = "Alias" -> Pointer(LocalRef("Csv"))
          [] name = "Link" -> Pointer(OpenApiRef("Alias"))]

CodeSchema(code, schema) == [code |-> code, schema |-> schema]

\* paramsSchema() declares id; nothing else is declared.
IdEndpoint ==
    [PlainEndpoint EXCEPT !.paramsSchema = ObjectSchema(<<Property("id", "path id")>>, {"id"})]
\* responseCodeSchemas() { return {
\*     200: { description: 'inline', contentMediaType: 'text/plain' },
\*     201: { $ref: Link } } }
\* bodySchema() { return { $ref: '#/components/schemas/Csv' } }
\* with options { defaultResponseMediaType: 'text/html' }
LinkedEndpoint ==
    [IdEndpoint EXCEPT
        !.responseCodeSchemas = <<CodeSchema(200, Schema("inline", "text/plain")),
                                  CodeSchema(201, Pointer(OpenApiRef("Link")))>>,
        !.bodySchema = Pointer(LocalRef("Csv")),
        !.options.defaultResponseMediaType = "text/html"]
\* operation() { return { responses: { 204: { description: 'No content' } } } }
RespondingEndpoint ==
    [IdEndpoint EXCEPT
        !.operation.responses =
            Put(<<>>, 204, DocumentedResponse("No content", Undefined, NullSchema,
                                              Undefined))]

InitDocument ==
    /\ nodes = <<Router(1)>>
    /\ docs = <<withComponents(defaultSpec, Components)>>
    /\ table = <<>>
    /\ clock = 0
    /\ origins = <<>>
    /\ routed = <<>>
    /\ secured = <<>>
    /\ phase = "configuring"
    /\ request = 0
    /\ stack = <<>>
    /\ index = 0
    /\ ran = <<>>
    /\ outcome = ""
    /\ nextArgs = <<>>
    /\ unfolded = <<>>
    /\ served = <<>>
    /\ sent = <<>>
    /\ flights = <<>>
    /\ validators = [request |-> <<>>, response |-> <<>>]
    /\ NoTraffic
    /\ input = NoInput

\* group(closure), group('/a/', closure) and group('/:gid', closure); route
\* with '/', '/:id' and 'x//y'.
NextDocument ==
    \/ \E n \in 1..Len(nodes),
          uri \in {Omitted, Given(<<"/", "a", "/">>), Given(<<"/", ":", "g", "i", "d">>)} :
          Group(n, uri, Omitted)
    \/ \E n \in 1..Len(nodes),
          uri \in {<<"/">>, <<"/", ":", "i", "d">>, <<"x", "/", "/", "y">>},
          E \in {IdEndpoint, LinkedEndpoint, RespondingEndpoint} :
          Route(n, uri, E, <<"get">>)

SpecDocument == InitDocument /\ [][NextDocument]_vars

\* ------------------------------------------------------- unfold() alone
\* The components unfold() is called against: the chain Link, Alias, Csv;
\* Link pointing at Csv directly; and Csv without a media type.
InitUnfold ==
    /\ nodes = <<Router(1)>>
    /\ docs \in {<<withComponents(defaultSpec, c)>> :
                    c \in {Components,
                           [Components EXCEPT !["Link"] = Pointer(LocalRef("Csv"))],
                           [Components EXCEPT !["Csv"] = Schema("CSV export", Undefined)]}}
    /\ table = <<>>
    /\ clock = 0
    /\ origins = <<>>
    /\ routed = <<>>
    /\ secured = <<>>
    /\ phase = "configuring"
    /\ request = 0
    /\ stack = <<>>
    /\ index = 0
    /\ ran = <<>>
    /\ outcome = ""
    /\ nextArgs = <<>>
    /\ unfolded = <<>>
    /\ served = <<>>
    /\ sent = <<>>
    /\ flights = <<>>
    /\ validators = [request |-> <<>>, response |-> <<>>]
    /\ NoTraffic
    /\ input = NoInput

\* unfold() of undefined, of an inline schema, of pointers into chains of
\* length one to three, and of a pointer to a component the document lacks.
NextUnfold ==
    \E obj \in {NullSchema, Schema("inline", Undefined), Pointer(LocalRef("Csv")),
                Pointer(LocalRef("Alias")), Pointer(OpenApiRef("Link")),
                Pointer(LocalRef("Missing"))} :
        Unfold(obj)

SpecUnfold == InitUnfold /\ [][NextUnfold]_vars

\* ------------------------------------------------------- the served spec
\* Object.assign(target, source)
assign(target, source) ==
    [k \in DOMAIN target \cup DOMAIN source |->
        IF k \in DOMAIN source THEN source[k] ELSE target[k]]

\* crypto.createHash('md5').update(JSON.stringify(spec)).digest('hex'): equal
\* for equal documents, taken to differ for different ones.
contentHash(spec) == [algorithm |-> "md5", of |-> spec]

\* getSpec(info) on node n: info is merged into the document's info.
GetSpec(n, info) ==
    /\ phase = "configuring"
    /\ clock < MaxCalls
    /\ clock' = clock + 1
    /\ docs' = [docs EXCEPT ![nodes[n].spec].info =
                    assign(@, IF info.given THEN info.value ELSE <<>>)]
    /\ UNCHANGED <<nodes, table, origins, routed, secured, phase, request, stack,
                   index, ran, outcome, nextArgs, input, pipeline, extras, traffic>>

\* serveSpec(uri, info) on node n: getSpec(info), the hash and the date are
\* computed now, and specHandler is registered with them and with the
\* document itself.  document is history: the document as it is now.
ServeSpec(n, uri, info) ==
    /\ phase = "configuring"
    /\ clock < MaxCalls
    /\ clock' = clock + 1
    /\ docs' = [docs EXCEPT ![nodes[n].spec].info =
                    assign(@, IF info.given THEN info.value ELSE <<>>)]
    /\ served' = Append(served, [node |-> n, uri |-> uri, spec |-> nodes[n].spec,
                                 hash |-> contentHash(docs'[nodes[n].spec]),
                                 lastModified |-> clock + 1,
                                 document |-> docs'[nodes[n].spec]])
    /\ UNCHANGED <<nodes, table, origins, routed, secured, phase, request, stack,
                   index, ran, outcome, nextArgs, input, pipeline, unfolded, sent, traffic>>

\* The headers specHandler sets.
specHeaders(k) ==
    [ETag |-> served[k].hash, LastModified |-> served[k].lastModified,
     CacheControl |-> "public, max-age=31536000, must-revalidate"]

\* Faulty variant: what is sent is a copy made when serveSpec was called.
SpecHandlerCopy(k) ==
    /\ phase = "mounted"
    /\ sent = <<>>
    /\ sent' = Append(sent, [route |-> k, headers |-> specHeaders(k),
                             body |-> served[k].document])
    /\ UNCHANGED <<nodes, docs, table, clock, origins, routed, secured, phase,
                   request, stack, index, ran, outcome, nextArgs, input, pipeline,
                   unfolded, served, traffic>>

\* Faulty variant: the handler writes the date of the response into info.
SpecHandlerStamping(k) ==
    /\ phase = "mounted"
    /\ sent = <<>>
    /\ docs' = [docs EXCEPT ![served[k].spec].info =
                    assign(@, [version |-> "served"])]
    /\ sent' = Append(sent, [route |-> k, headers |-> specHeaders(k),
                             body |-> docs'[served[k].spec]])
    /\ UNCHANGED <<nodes, table, clock, origins, routed, secured, phase,
                   request, stack, index, ran, outcome, nextArgs, input, pipeline,
                   unfolded, served, traffic>>

\* A request to the route serveSpec call k registered: specHandler sets the
\* headers and sends spec, the document object itself.
SpecHandler(k) ==
    /\ phase = "mounted"
    /\ sent = <<>>
    /\ sent' = Append(sent, [route |-> k, headers |-> specHeaders(k),
                             body |-> docs[served[k].spec]])
    /\ UNCHANGED <<nodes, docs, table, clock, origins, routed, secured, phase,
                   request, stack, index, ran, outcome, nextArgs, input, pipeline,
                   unfolded, served, traffic>>

\* The Endpoint routed in the application, as createMiddleware sees it:
\* nothing declared, a handler that returns 'hi' or one that rejects later.
AppEndpoints ==
    {e \in ResponseSideEndpoints :
        /\ e.responseCodeSchemas = {}
        /\ ~e.options.validateResponse
        /\ e.options.defaultResponseCode = 200
        /\ e.options.defaultResponseHeaders = None
        /\ e.handler \in {[mode |-> "sync", result |-> Returns("hi")],
                         [mode |-> "async", result |-> Throws(Boom)]}}

\* The application: a Router configured, mounted with one error handler, and
\* then serving; a request that reaches the endpoint's middleware goes
\* through it as in Spec.
InitApp ==
    /\ Constructed
    /\ input = NoInput
    /\ endpoint \in AppEndpoints
    /\ nHandlers = 1
    /\ req = AllOk
    /\ req0 = req
    /\ pc = "start"
    /\ chain = NoChain
    /\ handlerSaw = <<>>
    /\ res = [headers |-> {}, statusCode |-> 200, body |-> NoPayload, headersSent |-> FALSE]
    /\ writes = <<>>
    /\ nextCalls = <<>>
    /\ errIdx = 0
    /\ errInFlight = NoError
    /\ escalated = <<>>
    /\ terminalSaw = <<>>
    /\ handlersRan = <<>>

\* The calls that configure the application.
Configure ==
    \/ Group(1, Omitted, Omitted)
    \/ Use(1, 1)
    \/ Secure(1, "apiKey", "apiKeyScheme", <<"read">>)
    \/ Route(1, RouteUri, PlainEndpoint, <<"get">>)
    \/ GetSpec(1, Given([title |-> "My API"]))
    \/ ServeSpec(1, <<"/", "s", "p", "e", "c">>, Omitted)

NextApp ==
    \/ Configure
    \/ Mount
    \/ \E r \in 1..Len(table) : Receive(r)
    \/ RunMiddleware
    \/ RunEndpoint
    \/ outcome = "endpoint" /\ Next
    \/ \E k \in 1..Len(served) : SpecHandler(k)

SpecApp == InitApp /\ [][NextApp]_vars

\* The application with, besides, a handler whose awaitable never settles.
InitLive ==
    /\ Constructed
    /\ input = NoInput
    /\ endpoint \in AppEndpoints
                     \cup {e \in ResponseSideEndpoints :
                             /\ e.responseCodeSchemas = {}
                             /\ ~e.options.validateResponse
                             /\ e.options.defaultResponseCode = 200
                             /\ e.options.defaultResponseHeaders = None
                             /\ e.handler.mode = "never"}
    /\ nHandlers = 1
    /\ req = AllOk
    /\ req0 = req
    /\ pc = "start"
    /\ chain = NoChain
    /\ handlerSaw = <<>>
    /\ res = [headers |-> {}, statusCode |-> 200, body |-> NoPayload, headersSent |-> FALSE]
    /\ writes = <<>>
    /\ nextCalls = <<>>
    /\ errIdx = 0
    /\ errInFlight = NoError
    /\ escalated = <<>>
    /\ terminalSaw = <<>>
    /\ handlersRan = <<>>

\* use and route on the root, mount, and the requests that follow.
NextLive ==
    \/ Use(1, 1)
    \/ Route(1, RouteUri, PlainEndpoint, <<"get">>)
    \/ Mount
    \/ \E r \in 1..Len(table) : Receive(r)
    \/ RunMiddleware
    \/ RunEndpoint
    \/ outcome = "endpoint" /\ Next

\* Every function of the chain that is called returns, the callbacks of the
\* promise chain run once their promise has settled, and an awaitable that
\* settles at all does so eventually; one that never settles has no step.
SpecLive ==
    /\ InitLive
    /\ [][NextLive]_vars
    /\ WF_vars(RunMiddleware)
    /\ WF_vars(RunEndpoint)
    /\ WF_vars(outcome = "endpoint" /\ Next)

\* ------------------------------------------- requests handled together
\* A request to the route arrives: the middleware createMiddleware returned
\* is called with a request object of its own.
Arrive(data) ==
    /\ Len(flights) < MaxInFlight
    /\ flights' = Append(flights, [req0 |-> data, req |-> data, pc |-> "start",
                                   body |-> Undefined, forwarded |-> NoError,
                                   answered |-> FALSE])
    /\ UNCHANGED <<nodes, docs, table, clock, origins, routed, secured, phase,
                   request, stack, index, ran, outcome, nextArgs, input, pipeline,
                   extras, validators>>

\* Faulty variant: the error is built from the list the validator held
\* before this run.
ValidateRequestStale(f) ==
    /\ flights[f].pc = "start"
    /\ LET v == createRequestValidator(endpoint, flights[f].req) IN
         /\ validators' = [validators EXCEPT !.request = v.errors]
         /\ flights' = [flights EXCEPT
                ![f].req = v.data,
                ![f].pc = IF v.valid THEN "handler" ELSE "done",
                ![f].forwarded = IF v.valid THEN NoError
                                 ELSE RequestValidationError(validators.request)]
    /\ UNCHANGED <<nodes, docs, table, clock, origins, routed, secured, phase,
                   request, stack, index, ran, outcome, nextArgs, input, pipeline,
                   extras>>

\* if (!requestValidator(req)) return next(new ValidationError(
\* requestValidator.errors)): the run coerces req, leaves its errors on the
\* validator, and the list is read from there in the same tick.
ValidateRequest(f) ==
    /\ flights[f].pc = "start"
    /\ LET v == createRequestValidator(endpoint, flights[f].req) IN
         /\ validators' = [validators EXCEPT !.request = v.errors]
         /\ flights' = [flights EXCEPT
                ![f].req = v.data,
                ![f].pc = IF v.valid THEN "handler" ELSE "done",
                ![f].forwarded = IF v.valid THEN NoError
                                 ELSE RequestValidationError(validators'.request)]
    /\ UNCHANGED <<nodes, docs, table, clock, origins, routed, secured, phase,
                   request, stack, index, ran, outcome, nextArgs, input, pipeline,
                   extras>>

\* Faulty variant: the middleware keeps the handler's last result on the
\* endpoint instance.
HandlerSettlesOnInstance(f, b) ==
    /\ flights[f].pc = "handler"
    /\ flights' = [flights EXCEPT ![f].body = b, ![f].pc = "respond"]
    /\ endpoint' = [endpoint EXCEPT !.handler.result = Returns(b)]
    /\ UNCHANGED <<nodes, docs, table, clock, origins, routed, secured, phase,
                   request, stack, index, ran, outcome, nextArgs, input, extras,
                   validators, nHandlers, req, req0, pc, chain, handlerSaw, res,
                   writes, nextCalls, errIdx, errInFlight, escalated, terminalSaw,
                   handlersRan>>

\* .then(req => this.handler(req)).then(body => ...): the handler's promise
\* settles with the body b it made for this request, in a later tick.
HandlerSettles(f, b) ==
    /\ flights[f].pc = "handler"
    /\ flights' = [flights EXCEPT ![f].body = b, ![f].pc = "respond"]
    /\ UNCHANGED <<nodes, docs, table, clock, origins, routed, secured, phase,
                   request, stack, index, ran, outcome, nextArgs, input, pipeline,
                   extras, validators>>

\* The third .then: the validator of the response code runs on the body,
\* leaves its errors on itself, and they are read from there in the same
\* tick; a valid body is sent.
ValidateResponse(f) ==
    /\ flights[f].pc = "respond"
    /\ LET v == responseValidator(flights[f].body)
           validated == /\ endpoint.options.validateResponse
                        /\ endpoint.options.defaultResponseCode
                             \in endpoint.responseCodeSchemas
       IN /\ validators' = IF validated THEN [validators EXCEPT !.response = v.errors]
                           ELSE validators
          /\ flights' = [flights EXCEPT
                 ![f].pc = "done",
                 ![f].answered = ~(validated /\ ~v.valid),
                 ![f].forwarded =
                    IF validated /\ ~v.valid
                      THEN ValidationError(validators'.response,
                                           "Response was not in the expected format.", 500)
                      ELSE NoError]
    /\ UNCHANGED <<nodes, docs, table, clock, origins, routed, secured, phase,
                   request, stack, index, ran, outcome, nextArgs, input, pipeline,
                   extras>>

\* One route whose Endpoint declares a query schema and a schema for its
\* default response code, with or without validateResponse, and nothing in
\* flight yet.
InitConcurrent ==
    /\ Constructed
    /\ input = NoInput
    /\ endpoint \in {[schemas |-> [NoSchemas EXCEPT !["query"] = "S"],
                       responseCodeSchemas |-> {200},
                       options |-> withDefaultOptions([validateResponse |-> vr]),
                       handler |-> [mode |-> "async", result |-> Returns("hi")]] :
                         vr \in BOOLEAN}
    /\ nHandlers = 0 /\ req = 0 /\ req0 = 0 /\ pc = "idle"
    /\ chain = 0 /\ handlerSaw = <<>> /\ res = 0 /\ writes = <<>>
    /\ nextCalls = <<>> /\ errIdx = 0 /\ errInFlight = 0 /\ escalated = <<>>
    /\ terminalSaw = <<>> /\ handlersRan = <<>>

\* The requests differ in their query; the handler's body is 'hi' or 'bad'.
NextConcurrent ==
    \/ \E q \in FacetValues : Arrive([AllOk EXCEPT !["query"] = q])
    \/ \E f \in 1..Len(flights) : ValidateRequest(f)
    \/ \E f \in 1..Len(flights), b \in {"hi", "bad"} : HandlerSettles(f, b)
    \/ \E f \in 1..Len(flights) : ValidateResponse(f)

SpecConcurrent == InitConcurrent /\ [][NextConcurrent]_vars

\* ------------------------------------------------ one route() call at a time
IdProperty(description) == <<Property("id", description)>>
QuerySchemas == {NoObjectSchema, ObjectSchema(IdProperty("query id"), {}),
                 ObjectSchema(<<Property("q", "search")>>, {"q"})}
ParamsSchemas == {NoObjectSchema, ObjectSchema(IdProperty("path id"), {}),
                  ObjectSchema(IdProperty("path id"), {"id"})}
HeadersSchemas == {NoObjectSchema, ObjectSchema(IdProperty("header id"), {})}
CookiesSchemas == {NoObjectSchema, ObjectSchema(IdProperty("cookie id"), {})}
SignedCookiesSchemas == {NoObjectSchema, ObjectSchema(IdProperty("signed id"), {})}
OperationParameters ==
    {NoParameters, <<Descriptor("id", "query", FALSE, "explicit id", NoParameterSchema)>>}

ParameterEndpoints ==
    {RouterEndpoint(q, p, h, c, s, Operation(<<>>, o, NoSecurity)) :
        q \in QuerySchemas, p \in ParamsSchemas, h \in HeadersSchemas,
        c \in CookiesSchemas, s \in SignedCookiesSchemas, o \in OperationParameters}

\* '/a', '/a/:id/b', '/:id(\d+)' and '/:id((a|b))'
Uris == {<<"/", "a">>,
         <<"/", "a", "/", ":", "i", "d", "/", "b">>,
         <<"/", ":", "i", "d", "(", "\\", "d", "+", ")">>,
         <<"/", ":", "i", "d", "(", "(", "a", "|", "b", ")", ")">>}
MethodLists == {<<"get">>, <<"GET", "post">>}

Inputs == [uri : Uris, endpoint : ParameterEndpoints, methods : MethodLists]

InitParameters ==
    /\ Constructed
    /\ NoTraffic
    /\ input \in Inputs

\* The route() call under study, made on a fresh root Router.
RouteInput ==
    /\ clock = 0
    /\ Route(1, input.uri, input.endpoint, input.methods)

NextParameters == RouteInput

SpecParameters == InitParameters /\ [][NextParameters]_vars

\* ================================================================ claims
\* Writes the endpoint middleware itself made to the response.
EndpointWrites == SelectSeq(writes, LAMBDA w : w.by = "endpoint")
TerminalWrites == SelectSeq(writes, LAMBDA w : w.by = "terminal")

\* The endpoint middleware sent the success body.
Emitted == \E i \in 1..Len(writes) : writes[i] = Write("endpoint", "send")

\* The endpoint middleware passed an error to next.
Forwarded == nextCalls # <<>>

\* The middleware's promise chain has run to its end for this request.
ChainEnded == pc \in {"errors", "done"}

TheHandler == endpoint.handler
TheOptions == endpoint.options

\* The composite request validator rejects the request as it arrived.
RequestRejected == ~createRequestValidator(endpoint, req0).valid

\* C1: when the composite request validator rejects the request, the handler
\* is never invoked, the endpoint middleware writes nothing to the response,
\* and next receives exactly one error: a ValidationError with code 400 whose
\* details are the validator's error list.
C1_RejectedRequestForwards400 ==
    (pc # "start" /\ RequestRejected) =>
        /\ handlerSaw = <<>>
        /\ EndpointWrites = <<>>
        /\ Len(nextCalls) = 1
        /\ nextCalls[1].type = "ValidationError"
        /\ nextCalls[1].code = 400
        /\ nextCalls[1].details = createRequestValidator(endpoint, req0).errors

C1_Witness ==
    /\ pc = "done"
    /\ RequestRejected
    /\ endpoint.schemas["query"] = "S"
    /\ req0["query"] = "bad"
    /\ Len(nextCalls) = 1
    /\ nextCalls[1].details = <<"invalid:query">>

\* The status code and body of the outcome the handler settles with.
OutcomeCode ==
    IF TheHandler.result.kind = "response"
      THEN TheHandler.result.response.code
      ELSE TheOptions.defaultResponseCode
OutcomeBody ==
    IF TheHandler.result.kind = "response"
      THEN TheHandler.result.response.body
      ELSE TheHandler.result.body

\* Response validation is on, a validator is declared for the outcome's
\* status code, and it rejects the outcome's body.
ResponseRejected ==
    /\ TheHandler.result.kind # "throw"
    /\ TheOptions.validateResponse
    /\ OutcomeCode \in endpoint.responseCodeSchemas
    /\ ~responseValidator(OutcomeBody).valid

\* C2: when response validation is enabled and the outcome fails the
\* validator declared for its status code, next receives a ValidationError
\* with code 500 and the response validator's error list as details, and the
\* endpoint middleware writes neither headers, status nor body.
C2_RejectedResponseForwards500 ==
    (ChainEnded /\ handlerSaw # <<>> /\ ResponseRejected) =>
        /\ EndpointWrites = <<>>
        /\ Len(nextCalls) = 1
        /\ nextCalls[1].type = "ValidationError"
        /\ nextCalls[1].code = 500
        /\ nextCalls[1].details = responseValidator(OutcomeBody).errors

C2_Witness ==
    /\ pc = "done"
    /\ handlerSaw # <<>>
    /\ ResponseRejected
    /\ TheHandler.mode = "async"
    /\ Len(nextCalls) = 1
    /\ nextCalls[1].code = 500

\* The handler throws, or its awaitable rejects.
HandlerFails == TheHandler.result.kind = "throw" /\ TheHandler.mode # "never"

\* C3: a value the handler throws, or its awaitable rejects with, is passed
\* to next as that same value, exactly once, and the endpoint middleware
\* emits no response.
C3_HandlerErrorForwardedUnchanged ==
    (HandlerFails /\ handlerSaw # <<>>) =>
        /\ EndpointWrites = <<>>
        /\ IF ChainEnded
             THEN nextCalls = <<TheHandler.result.err>>
             ELSE nextCalls = <<>>

C3_Witness ==
    /\ pc = "done"
    /\ HandlerFails
    /\ TheHandler.mode = "async"
    /\ TheHandler.result.err = Boom
    /\ nextCalls = <<Boom>>

\* C4: per request the endpoint middleware does exactly one of two things,
\* emit the success body or pass an error to next: never both at any moment,
\* each at most once, and one of them once its promise chain has ended, also
\* when res.set or res.send throws.
C4_ExactlyOneOutcome ==
    /\ ~(Emitted /\ Forwarded)
    /\ Len(nextCalls) <= 1
    /\ Len(SelectSeq(writes, LAMBDA w : w = Write("endpoint", "send"))) <= 1
    /\ ChainEnded => (Emitted \/ Forwarded)

C4_Witness ==
    /\ pc = "done"
    /\ nextCalls = <<TransportError>>
    /\ EndpointWrites = <<Write("endpoint", "set"), Write("endpoint", "status")>>
    /\ ~Emitted

\* The handler settles with a value that is not a Response.
BareValue == TheHandler.result.kind = "value" /\ TheHandler.mode # "never"

ConfiguredDefaultHeaders ==
    IF TheOptions.defaultResponseHeaders.defined
      THEN TheOptions.defaultResponseHeaders.value
      ELSE {}

\* C5 as stated: a bare value is emitted with the default status code, the
\* default headers and a body equal to the returned value.
C5_BareValueBodyIsReturnedValue ==
    (Emitted /\ BareValue) =>
        /\ res.statusCode = TheOptions.defaultResponseCode
        /\ res.headers = ConfiguredDefaultHeaders
        /\ res.body.kind = "plain"
        /\ res.body.v = TheHandler.result.body

\* C5, amended: a bare value is emitted with the default status code, the
\* default headers (none when none are configured) and a body equal to the
\* returned value, except that a handler that resolves to undefined is
\* answered with the empty string.
C5_BareValueUsesDefaults ==
    (Emitted /\ BareValue) =>
        /\ res.statusCode = TheOptions.defaultResponseCode
        /\ res.headers = ConfiguredDefaultHeaders
        /\ res.body.kind = "plain"
        /\ res.body.v = IF TheHandler.result.body = Undefined
                          THEN "" ELSE TheHandler.result.body

C5_Witness ==
    /\ Emitted
    /\ BareValue
    /\ TheHandler.result.body = Undefined
    /\ res.body = Plain("")
    /\ TheOptions.defaultResponseCode = 201
    /\ TheOptions.defaultResponseHeaders = Some({"d"})
    /\ res.statusCode = 201
    /\ res.headers = {"d"}

\* C6: an explicit Response(body, code, headers) is emitted with exactly that
\* status code, those headers and that body; the endpoint's default status
\* code and default headers are neither applied nor merged in.
C6_ExplicitResponseEmittedAsIs ==
    (Emitted /\ TheHandler.result.kind = "response") =>
        /\ res.statusCode = TheHandler.result.response.code
        /\ res.headers = TheHandler.result.response.headers
        /\ res.body.kind = "plain"
        /\ res.body.v = TheHandler.result.response.body

C6_Witness ==
    /\ Emitted
    /\ TheHandler.result.kind = "response"
    /\ TheHandler.result.response.code = 201
    /\ TheHandler.result.response.headers = {"a"}
    /\ TheOptions.defaultResponseCode = 200
    /\ TheOptions.defaultResponseHeaders = Some({"d"})

\* No facet of the endpoint declares a request schema.
NoneDeclared == \A f \in Facets : endpoint.schemas[f] = "null"

\* C7: an endpoint with no request schema lets every request through to the
\* handler: validation never fails, and the handler is invoked with the
\* request object unchanged in every facet.
C7_NoSchemasReachHandlerUnchanged ==
    NoneDeclared =>
        /\ req = req0
        /\ pc \notin {"start", "handler"} => handlerSaw = <<req0>>

C7_Witness ==
    /\ NoneDeclared
    /\ \E f \in Facets : req0[f] \in {"absent", "bad", "raw"}
    /\ handlerSaw = <<req0>>

Range(s) == {s[i] : i \in 1..Len(s)}

\* C8: the required list of the composite schema holds exactly the facets
\* that declare a schema, and with default options a request whose body fails
\* the declared bodySchema never reaches the handler.
C8_DeclaredBodyIsRequiredAndValidated ==
    /\ Range(requestSchema(endpoint).required) =
         {f \in Facets : endpoint.schemas[f] # "null"}
    /\ ( /\ TheOptions.requestPropertiesToValidate = DefaultProperties
         /\ endpoint.schemas["body"] = "S"
         /\ req0["body"] \in {"absent", "bad"} )
       => handlerSaw = <<>>

\* C9: an error that reaches the terminal stage while no response has been
\* sent is answered with its own code and {code, message, details} when it is
\* an EndpointError, and with the default EndpointError (500, the generic
\* message, no details) when it is anything else.
C9_TerminalStageAnswers ==
    \A i \in 1..Len(terminalSaw) :
        ~terminalSaw[i].headersSent =>
            LET e == terminalSaw[i].err IN
            IF e.type \in {"EndpointError", "ValidationError"}
              THEN /\ res.statusCode = e.code
                   /\ res.body = [kind |-> "json", v |-> "", code |-> e.code,
                                  message |-> e.message, details |-> e.details]
              ELSE /\ res.statusCode = 500
                   /\ res.body = [kind |-> "json", v |-> "", code |-> 500,
                                  message |-> "An internal error occurred.",
                                  details |-> <<>>]

C9_Witness ==
    /\ Len(terminalSaw) = 1
    /\ ~terminalSaw[1].headersSent
    /\ terminalSaw[1].err = Boom
    /\ res.statusCode = 500
    /\ res.body.details = <<>>

\* C10: an error that reaches the terminal stage after the response has been
\* sent makes the terminal stage write nothing and call next once, with the
\* error itself when it is an EndpointError and with the default
\* EndpointError it was replaced by otherwise; the terminal stage never sends
\* a second response.
C10_TerminalStageDefersWhenSent ==
    /\ Len(terminalSaw) <= 1
    /\ \A i \in 1..Len(terminalSaw) :
        LET e == terminalSaw[i].err IN
        IF terminalSaw[i].headersSent
          THEN /\ TerminalWrites = <<>>
               /\ Len(escalated) = 1
               /\ escalated[1] = IF e.type \in {"EndpointError", "ValidationError"}
                                   THEN e
                                   ELSE [type |-> "EndpointError", code |-> 500,
                                         message |-> "An internal error occurred.",
                                         details |-> <<>>]
          ELSE escalated = <<>>

C10_Witness ==
    /\ Len(terminalSaw) = 1
    /\ terminalSaw[1].headersSent
    /\ Len(SelectSeq(writes, LAMBDA w : w.op = "send")) = 1
    /\ Len(escalated) = 1

\* An error handler given to mount() answered the request and did not call
\* next: the request ended at that handler.
AnsweredByErrorHandler == pc = "done" /\ errIdx \in 1..nHandlers

\* C11: with mount(errorHandlers), an error a route forwarded goes through
\* the caller's error handlers in their given order, and the terminal stage
\* runs only after every one of them ran and passed the error on; when one of
\* them sends the response and does not call next, the terminal stage never
\* runs and the response is the one that handler sent.
C11_ErrorHandlersBeforeTerminal ==
    /\ \A i \in 1..Len(handlersRan) : handlersRan[i] = i
    /\ (pc = "done" /\ Forwarded /\ nHandlers > 0) => handlersRan # <<>>
    /\ terminalSaw # <<>> => handlersRan = [i \in 1..nHandlers |-> i]
    /\ AnsweredByErrorHandler =>
          /\ terminalSaw = <<>>
          /\ TerminalWrites = <<>>
          /\ handlersRan = [i \in 1..errIdx |-> i]
          /\ res.headersSent
          /\ res.body = Plain(errInFlight.message)
          /\ writes[Len(writes)] = Write("errorHandler", "send")

C11_Witness ==
    /\ nHandlers = 2
    /\ AnsweredByErrorHandler
    /\ handlersRan = <<1, 2>>
    /\ Forwarded

\* --------------------------------------------------------- the Router tree
\* The route() calls that registered something.
Registered == {i \in 1..Len(routed) : ~routed[i].threw}

\* The keys of paths that route() call i wrote.
KeysOf(i) == {<<routed[i].path, toLowerCase(routed[i].methods[k])>> :
                 k \in 1..Len(routed[i].methods)}

\* C12: the root and every node made by group() hold the same document, so
\* what any node registers is in the document the root's getSpec() returns:
\* each security scheme, and each operation under its path and method unless a
\* later route() call wrote the same path and method.
C12_OneSharedDocument ==
    /\ \A n \in 1..Len(nodes) : nodes[n].spec = nodes[1].spec
    /\ \A i \in 1..Len(secured) :
          /\ secured[i].name \in DOMAIN getSpec(1).securitySchemes
          /\ getSpec(1).securitySchemes[secured[i].name] = secured[i].scheme
    /\ \A i \in Registered : \A key \in KeysOf(i) :
          /\ key \in DOMAIN getSpec(1).paths
          /\ (\A j \in Registered : j > i => key \notin KeysOf(j))
                => getSpec(1).paths[key] = routed[i].operation

C12_Witness ==
    \E i \in Registered :
        /\ Len(Lineage(routed[i].node)) = 3
        /\ \A key \in KeysOf(i) : getSpec(1).paths[key] = routed[i].operation

\* The tags given to the groups n lies in, outermost group first.
RECURSIVE AncestorTags(_)
AncestorTags(n) ==
    IF n = 0 THEN <<>> ELSE AncestorTags(nodes[n].parent) \o nodes[n].groupTags

\* list without the elements that occurred earlier in it.
RECURSIVE FirstOccurrences(_, _)
FirstOccurrences(list, i) ==
    IF i > Len(list) THEN <<>>
    ELSE (IF \E j \in 1..(i - 1) : list[j] = list[i] THEN <<>> ELSE <<list[i]>>)
         \o FirstOccurrences(list, i + 1)

\* C13: the tags of a registered operation are the tags of the groups around
\* the route, outermost first, then the tags of the endpoint's operation(),
\* each kept at its first occurrence only; under groups tagged foo then bar
\* an endpoint without tags gets <<foo, bar>>, and outside any tagged group
\* it gets none.
C13_TagsInheritedThenDeclared ==
    \A i \in Registered :
        LET r == routed[i]
            own == r.endpoint.operation.tags
        IN /\ r.operation.tags = FirstOccurrences(AncestorTags(r.node) \o own, 1)
           /\ (AncestorTags(r.node) = <<"foo", "bar">> /\ own = <<>>)
                 => r.operation.tags = <<"foo", "bar">>
           /\ (AncestorTags(r.node) = <<>> /\ own = <<>>) => r.operation.tags = <<>>

C13_Witness ==
    \E i \in Registered :
        /\ AncestorTags(routed[i].node) = <<"foo", "bar">>
        /\ Len(Lineage(routed[i].node)) = 3
        /\ routed[i].operation.tags = <<"foo", "bar">>

\* The node of the route serving the request in flight.
RouteNode == table[request].node

\* The middleware functions added so far on nodes that are neither the
\* route's node nor one of its ancestors.
Foreign == {m \in 1..Len(origins) : ~IsAncestorOrSelf(origins[m].node, RouteNode)}

GroupBelow(a) ==
    LET below == {c \in 1..Len(nodes) :
                    IsAncestorOrSelf(c, RouteNode) /\ nodes[c].parent = a}
    IN IF below = {} THEN 0 ELSE CHOOSE c \in below : TRUE

\* The middleware functions added on an ancestor of the route's node after
\* the group leading to the route was made from it.
AddedTooLate ==
    {m \in 1..Len(origins) :
        /\ GroupBelow(origins[m].node) # 0
        /\ origins[m].at > nodes[GroupBelow(origins[m].node)].created}

\* C15: a group's chain is the parent's chain as it was when group() was
\* called: a middleware function added to a node after a group was made from
\* it never runs for a route of that group or of a group below it.
C15_ChainIsSnapshotAtGroup ==
    request # 0 =>
        /\ \A i \in 1..Len(ran) : ran[i] \notin AddedTooLate
        /\ \A i \in 1..Len(stack) : stack[i] \notin AddedTooLate

C15_Witness ==
    /\ request # 0
    /\ outcome = "endpoint"
    /\ RouteNode # 1
    /\ AddedTooLate # {}

\* The chain of the route's node, in the order the functions were added,
\* those inherited from the ancestors first.
ChainInOrder ==
    LET chain_ == nodes[RouteNode].middleware IN
    \A i, j \in 1..Len(chain_) :
        i < j => /\ origins[chain_[i]].at <= origins[chain_[j]].at
                 /\ chain_[i] < chain_[j]
                 /\ origins[chain_[i]].node = RouteNode
                       => origins[chain_[j]].node = RouteNode

\* C16: for a request the functions of the node's chain run one after
\* another in the order they were added, inherited ones first, and all of
\* them have run and called next without an error when the endpoint's
\* validation starts; when one of them calls next with an error, it is the
\* last function to run, the endpoint does not run, and that error is
\* passed on.
C16_ChainRunsInOrderAheadOfEndpoint ==
    request # 0 =>
        /\ ChainInOrder
        /\ Len(ran) <= Len(nodes[RouteNode].middleware)
        /\ ran = SubSeq(nodes[RouteNode].middleware, 1, Len(ran))
        /\ outcome = "endpoint" => /\ ran = nodes[RouteNode].middleware
                                   /\ nextArgs = <<>>
        /\ nextArgs # <<>> => /\ outcome = "forwarded"
                              /\ nextArgs = <<MiddlewareError(ran[Len(ran)])>>
        /\ outcome = "forwarded" => nextArgs # <<>>

C16_Witness ==
    /\ request # 0
    /\ outcome = "forwarded"
    /\ Len(ran) = 1
    /\ Len(nodes[RouteNode].middleware) = 2
    /\ origins[nodes[RouteNode].middleware[1]].node # RouteNode

\* Node n is node a, or lies in groups that were all made below a after
\* time at.
NestedSince(a, n, at) ==
    /\ IsAncestorOrSelf(a, n)
    /\ \A k \in 1..Len(Lineage(n)) :
          LET c == Lineage(n)[k] IN
          (c # a /\ IsAncestorOrSelf(a, c)) => nodes[c].created > at

\* C17 (as stated): after secure(middleware, name, scheme, requirement) on a
\* node the document's securitySchemes map name to scheme, and a route
\* registered later on that node or on a group nested below it since, whose
\* operation() declares no security, has security <<[name: requirement]>>.
C17_SecuredRoutesCarrySecurity ==
    /\ \A i \in 1..Len(secured) :
          /\ secured[i].name \in DOMAIN getSpec(1).securitySchemes
          /\ getSpec(1).securitySchemes[secured[i].name] = secured[i].scheme
    /\ \A i \in 1..Len(secured) : \A j \in Registered :
          (/\ routed[j].at > secured[i].at
           /\ NestedSince(secured[i].node, routed[j].node, secured[i].at)
           /\ ~routed[j].endpoint.operation.security.declared)
            => routed[j].operation.security =
                 Security(<<Requirement(secured[i].name, secured[i].requirement)>>)

\* ------------------------------------------------------- route parameters
UriWithName == <<"/", "a", "/", ":", "i", "d", "/", "b">>
UriWithRegex == <<"/", ":", "i", "d", "(", "\\", "d", "+", ")">>

\* The uri of the call has the placeholder ':id'.
HasPlaceholder(r) == r.uri \in {UriWithName, UriWithRegex}

\* The endpoint of the call declares no parameter of any kind.
DeclaresNoParameters(r) ==
    /\ r.endpoint.querySchema = NoObjectSchema
    /\ r.endpoint.paramsSchema = NoObjectSchema
    /\ r.endpoint.headersSchema = NoObjectSchema
    /\ r.endpoint.cookiesSchema = NoObjectSchema
    /\ r.endpoint.signedCookiesSchema = NoObjectSchema
    /\ r.endpoint.operation.parameters = <<>>

\* The descriptors of the operation of call r, none when the field is absent.
ParametersOf(r) == IF r.operation.parameters.present THEN r.operation.parameters.list
                   ELSE <<>>

\* C18 (as stated): route() with a ':id' segment in the uri and an endpoint
\* that declares no parameters succeeds, the document path has '{id}' for the
\* segment, and the operation's parameters are the one synthesized descriptor
\* [name id, in path, required], with schema [type string, pattern regex]
\* when the segment has a '(regex)' constraint.
C18_PlaceholderAloneIsSynthesized ==
    \A i \in 1..Len(routed) :
        LET r == routed[i] IN
        (HasPlaceholder(r) /\ DeclaresNoParameters(r)) =>
            /\ ~r.threw
            /\ r.uri = UriWithName =>
                  /\ r.path = "/a/{id}/b"
                  /\ ParametersOf(r) = <<[name |-> "id", in |-> "path", required |-> TRUE,
                                          description |-> Undefined,
                                          schema |-> NoParameterSchema]>>
            /\ r.uri = UriWithRegex =>
                  /\ r.path = "/{id}"
                  /\ ParametersOf(r) = <<[name |-> "id", in |-> "path", required |-> TRUE,
                                          description |-> Undefined,
                                          schema |-> [type |-> "string",
                                                      pattern |-> "\\d+"]]>>

\* The descriptors of call r that are named id and located in the path.
PathDescriptors(r) == SelectSeq(ParametersOf(r), LAMBDA d : d.name = "id" /\ d.in = "path")

\* C19 (as stated): when the placeholder ':id' names a parameter declared
\* through paramsSchema, the operation has one path descriptor for id, not
\* two; it has the declared description and required TRUE, and the schema
\* [type string, pattern] when the placeholder has a regex constraint.
C19_DeclaredPathParameterIsMerged ==
    \A i \in 1..Len(routed) :
        LET r == routed[i] IN
        (HasPlaceholder(r) /\ r.endpoint.paramsSchema # NoObjectSchema) =>
            /\ ~r.threw
            /\ Len(PathDescriptors(r)) = 1
            /\ PathDescriptors(r)[1].description = "path id"
            /\ PathDescriptors(r)[1].required
            /\ r.uri = UriWithRegex =>
                  PathDescriptors(r)[1].schema = [type |-> "string", pattern |-> "\\d+"]

\* The descriptors the endpoint of call r declares for locations other than
\* the path.
DeclaredElsewhere(r) ==
    LET E == r.endpoint
        Of(location, schema) ==
            {[name |-> schema.properties[k].name, in |-> location,
              description |-> schema.properties[k].description] :
                 k \in 1..Len(schema.properties)}
    IN Of("query", E.querySchema) \cup Of("header", E.headersSchema)
       \cup Of("cookie", E.cookiesSchema) \cup Of("cookie", E.signedCookiesSchema)
       \cup {[name |-> E.operation.parameters[k].name,
                in |-> E.operation.parameters[k].in,
                description |-> E.operation.parameters[k].description] :
                  k \in 1..Len(E.operation.parameters)}

\* C20 (as stated): the parameters of every operation route() writes hold no
\* two descriptors with the same name and location, and every descriptor
\* declared for a location other than the path is still there, at its
\* location, after the placeholders were merged.
C20_NoDuplicateParameters ==
    \A i \in Registered :
        LET r == routed[i]
            list == ParametersOf(r)
        IN /\ \A a, b \in 1..Len(list) :
                 (list[a].name = list[b].name /\ list[a].in = list[b].in) => a = b
           /\ \A d \in DeclaredElsewhere(r) :
                 \E a \in 1..Len(list) : /\ list[a].name = d.name
                                         /\ list[a].in = d.in
                                         /\ list[a].description = d.description

\* ------------------------------------------------ documented operations
\* Neither responseCodeSchemas() nor operation() of E supplies a response.
SuppliesNoResponse(E) ==
    E.responseCodeSchemas = <<>> /\ DOMAIN E.operation.responses = {}

\* C21: every operation in the document has at least one response, and a
\* route whose endpoint supplies none carries exactly one, keyed by the
\* endpoint's default response code and described as
\* 'No schema given for response.'.
C21_EveryOperationHasAResponse ==
    /\ \A k \in DOMAIN getSpec(1).paths : DOMAIN getSpec(1).paths[k].responses # {}
    /\ \A i \in Registered :
          SuppliesNoResponse(routed[i].endpoint) =>
            LET responses == routed[i].operation.responses
                code == routed[i].endpoint.options.defaultResponseCode
            IN /\ DOMAIN responses = {code}
               /\ responses[code].description = "No schema given for response."

C21_Witness ==
    \E i \in Registered :
        /\ SuppliesNoResponse(routed[i].endpoint)
        /\ <<routed[i].path, "get">> \in DOMAIN getSpec(1).paths
        /\ DOMAIN getSpec(1).paths[<<routed[i].path, "get">>].responses = {200}

\* The media type a schema declares in the components the Router was
\* constructed with, or else the default.
DeclaredMediaType(schema, default) ==
    LET declared == unfold(schema, withComponents(defaultSpec, Components)) IN
    IF declared.contentMediaType # Undefined THEN declared.contentMediaType ELSE default

\* C22 (as stated): every documented response of every route is keyed by the
\* content type its resolved schema declares, or else by the endpoint's
\* defaultResponseMediaType, however many routes reference the same
\* component; likewise the requestBody with defaultRequestBodyMediaType.
C22_ContentTypeIsDeclaredOrDefault ==
    \A i \in Registered :
        LET r == routed[i]
            E == r.endpoint
        IN /\ \A k \in 1..Len(E.responseCodeSchemas) :
                r.operation.responses[E.responseCodeSchemas[k].code].mediaType
                  = DeclaredMediaType(E.responseCodeSchemas[k].schema,
                                      E.options.defaultResponseMediaType)
           /\ E.bodySchema.kind # "null" =>
                r.operation.requestBody.mediaType
                  = DeclaredMediaType(E.bodySchema,
                                      E.options.defaultRequestBodyMediaType)

\* The chains of component names in which each component points at the next.
Chains(spec) ==
    {c \in UNION {[1..n -> DOMAIN spec.schemas] :
                    n \in 1..Cardinality(DOMAIN spec.schemas)} :
        \A i \in 1..(Len(c) - 1) :
            /\ spec.schemas[c[i]].kind = "pointer"
            /\ spec.schemas[c[i]].ref.keys = <<"components", "schemas", c[i + 1]>>}

\* C23: unfold returns null for an absent value and a non-pointer value
\* itself; for a pointer at the head of a chain of pointers that ends in a
\* concrete schema it returns that schema; the same pointer unfolds to the
\* same value every time, and the document is as it was before the calls.
C23_UnfoldResolvesChains ==
    \A k \in 1..Len(unfolded) :
        LET u == unfolded[k] IN
        /\ u.obj.kind = "null" => u.value = NullSchema
        /\ u.obj.kind = "schema" => u.value = u.obj
        /\ \A c \in Chains(u.spec) :
              (/\ u.obj.kind = "pointer"
               /\ u.obj.ref.keys = <<"components", "schemas", c[1]>>
               /\ u.spec.schemas[c[Len(c)]].kind = "schema")
              => u.value = u.spec.schemas[c[Len(c)]]
        /\ \A j \in 1..Len(unfolded) : unfolded[j].obj = u.obj => unfolded[j].value = u.value
        /\ u.spec = getSpec(1)

C23_Witness ==
    /\ Len(unfolded) >= 2
    /\ unfolded[1].obj = Pointer(OpenApiRef("Link"))
    /\ unfolded[2].obj = Pointer(OpenApiRef("Link"))
    /\ getSpec(1).schemas["Link"] = Pointer(OpenApiRef("Alias"))
    /\ unfolded[2].value = Schema("CSV export", "text/csv")

\* The non-empty segments of the uris given to the groups above node n and
\* to n itself, outermost first.
RECURSIVE GroupSegments(_)
GroupSegments(n) ==
    IF n = 0 THEN <<>>
    ELSE GroupSegments(nodes[n].parent)
         \o SelectSeq(split(nodes[n].groupUri, <<>>), LAMBDA p : p # <<>>)

\* ':name' written as '{name}', any other segment as it is.
Braced(p) == IF Head(p) = ":" THEN "{" \o Str(Tail(p)) \o "}" ELSE Str(p)

\* The segments route() call r is documented under.
PathSegments(r) ==
    GroupSegments(r.node) \o SelectSeq(split(r.uri, <<>>), LAMBDA p : p # <<>>)

\* C24: a route is documented under '/' followed by the non-empty segments
\* of the uris of the groups it was reached through and of its own uri, in
\* order and joined by single '/', with ':name' written '{name}'; a group
\* without a uri adds nothing; every key of paths is such a key.
C24_PathKeyIsJoinedSegments ==
    /\ \A i \in Registered :
          LET segments == PathSegments(routed[i]) IN
          routed[i].path = "/" \o join([k \in 1..Len(segments) |-> Braced(segments[k])])
    /\ \A key \in DOMAIN getSpec(1).paths :
          \E i \in Registered :
              LET segments == PathSegments(routed[i]) IN
              /\ key[1] = "/" \o join([k \in 1..Len(segments) |-> Braced(segments[k])])
              /\ \A k \in 1..Len(segments) : segments[k] # <<>>

C24_Witness ==
    \E i \in Registered :
        /\ routed[i].path = "/a/{id}"
        /\ nodes[routed[i].node].parent # 0
        /\ \E n \in 1..Len(nodes) :
              IsAncestorOrSelf(n, routed[i].node) /\ n # 1 /\ nodes[n].groupUri = <<>>
        /\ <<"/a/{id}", "get">> \in DOMAIN getSpec(1).paths

\* ------------------------------------------------------- the served spec
\* C25: a request to the route serveSpec registered is answered with the
\* document as it is when the request is handled, so with every operation
\* registered by then, those registered after the serveSpec call included.
C25_ServedBodyIsLiveDocument ==
    \A k \in 1..Len(sent) :
        /\ sent[k].body = getSpec(served[sent[k].route].node)
        /\ \A i \in Registered : KeysOf(i) \subseteq DOMAIN sent[k].body.paths

C25_Witness ==
    \E k \in 1..Len(sent), i \in Registered :
        /\ routed[i].at > served[sent[k].route].lastModified
        /\ KeysOf(i) \subseteq DOMAIN sent[k].body.paths
        /\ sent[k].body # served[sent[k].route].document

\* C26 (as stated): in every response of the route serveSpec registered, the
\* ETag header is the content hash of the document sent in that response,
\* whatever was called before or after serveSpec.
C26_ETagIsHashOfSentDocument ==
    \A k \in 1..Len(sent) : sent[k].headers.ETag = contentHash(sent[k].body)

\* A call of group, route, secure, getSpec or serveSpec.
ConfiguringCall ==
    \/ \E n \in 1..Len(nodes), uri \in {Omitted}, tags \in {Omitted} : Group(n, uri, tags)
    \/ \E n \in 1..Len(nodes) : Route(n, RouteUri, PlainEndpoint, <<"get">>)
    \/ \E n \in 1..Len(nodes) : Secure(n, "apiKey", "apiKeyScheme", <<"read">>)
    \/ \E n \in 1..Len(nodes) : GetSpec(n, Given([title |-> "My API"]))
    \/ \E n \in 1..Len(nodes) : ServeSpec(n, <<"/", "s", "p", "e", "c">>, Omitted)

\* C27: the document is written only inside group, route, secure, getSpec
\* and serveSpec calls; no step of request handling (middleware dispatch,
\* the endpoint's middleware with its validations, spec serving, the error
\* stages) changes it.
C27_OnlyConfiguringCallsWriteDocument ==
    [][docs' # docs => ConfiguringCall]_vars

C27_Witness ==
    /\ sent # <<>>
    /\ pc = "done"
    /\ ran # <<>>
    /\ DOMAIN getSpec(1).paths # {}

\* ------------------------------------------- requests handled together
\* C28 (as stated): handling a request writes nothing but the request
\* object: not the validators, not the endpoint instance, not a router node.
C28_OnlyRequestObjectWritten ==
    [][/\ validators' = validators
       /\ endpoint' = endpoint
       /\ nodes' = nodes
       /\ docs' = docs]_vars

\* The step is a validation run for request f.
ValidationRun(f) ==
    /\ flights[f].pc \in {"start", "respond"}
    /\ flights'[f].pc # flights[f].pc

\* C28 (amended): a step of request handling writes the object of one
\* request and, when it is a validation run, the errors property of the
\* validator that ran; the endpoint instance, the router nodes and the
\* document are left as they are, and so are the other requests' objects.
C28_OnlyRequestAndValidatorErrorsWritten ==
    [][/\ endpoint' = endpoint
       /\ nodes' = nodes
       /\ docs' = docs
       /\ table' = table
       /\ validators' # validators => \E f \in 1..Len(flights) : ValidationRun(f)
       /\ \A f, g \in 1..Len(flights) :
             f # g => (flights'[f] = flights[f] \/ flights'[g] = flights[g])]_vars

C28_Witness ==
    \E f, g \in 1..Len(flights) :
        /\ flights[f].pc = "done"
        /\ flights[f].forwarded # NoError
        /\ validators.request = flights[f].forwarded.details
        /\ flights[g].pc = "handler"
        /\ flights[g].req # flights[g].req0

\* The errors of validating the data request f came with, and the body its
\* handler made.
OwnRequestErrors(f) == createRequestValidator(endpoint, flights[f].req0).errors
OwnResponseErrors(f) == responseValidator(flights[f].body).errors

\* C29: the details of a ValidationError forwarded for a request are the
\* errors of validating that request's own data, the request itself for a
\* 400 and the body its handler made for a 500, however the requests in
\* flight interleave.
C29_ForwardedErrorsAreOwn ==
    \A f \in 1..Len(flights) :
        LET err == flights[f].forwarded IN
        /\ (err # NoError /\ err.code = 400) =>
              (err.details = OwnRequestErrors(f) /\ err.details # <<>>)
        /\ (err # NoError /\ err.code = 500) =>
              (err.details = OwnResponseErrors(f) /\ err.details # <<>>)

C29_Witness ==
    \E f, g \in 1..Len(flights) :
        /\ flights[f].forwarded # NoError /\ flights[f].forwarded.code = 400
        /\ flights[g].forwarded # NoError /\ flights[g].forwarded.code = 500
        /\ validators.request = flights[f].forwarded.details
        /\ validators.response = flights[g].forwarded.details

UriWithNestedRegex == <<"/", ":", "i", "d", "(", "(", "a", "|", "b", ")", ")">>

\* The patterns of the path descriptors of call r.
PathPatterns(r) ==
    {ParametersOf(r)[k].schema.pattern :
        k \in {k \in 1..Len(ParametersOf(r)) : ParametersOf(r)[k].in = "path"}}

\* C30 (as stated): the constraint taken from a ':name(regex)' segment is
\* the characters between the first '(' and the ')' matching it, also when
\* the constraint has parentheses of its own, and the name is the characters
\* between ':' and the first '(': ':id(\d+)' gives id and '\d+',
\* ':id((a|b))' gives id and '(a|b)'.
C30_ConstraintIsBalancedParenthesis ==
    \A i \in Registered :
        LET r == routed[i] IN
        /\ r.uri = UriWithRegex => (r.path = "/{id}" /\ "\\d+" \in PathPatterns(r))
        /\ r.uri = UriWithNestedRegex => (r.path = "/{id}" /\ "(a|b)" \in PathPatterns(r))

\* ------------------------------------------------- the request pipeline
\* A 500 ValidationError for the response was passed to next.
Forwarded500 ==
    \E i \in 1..Len(nextCalls) :
        nextCalls[i].type = "ValidationError" /\ nextCalls[i].code = 500

\* C31: a 500 validation error is produced only when validateResponse is
\* on, a schema is declared for the outcome's own status code and its
\* validator rejects the body; otherwise, and so whenever validateResponse
\* is off or the code has no schema, the outcome passes to the response as
\* it is: what is emitted has the outcome's code and body.
C31_ResponseValidationOnlyWhenAllThree ==
    /\ Forwarded500 => ResponseRejected
    /\ (Emitted /\ ~(TheOptions.validateResponse
                      /\ OutcomeCode \in endpoint.responseCodeSchemas)) =>
          /\ res.statusCode = OutcomeCode
          /\ res.body = Plain(IF OutcomeBody = Undefined THEN "" ELSE OutcomeBody)
    /\ (ChainEnded /\ handlerSaw # <<>> /\ TheHandler.result.kind # "throw"
          /\ ~ResponseRejected) =>
          (Emitted \/ nextCalls = <<TransportError>>)

C31_Witness ==
    /\ pc = "done"
    /\ Emitted
    /\ ~TheOptions.validateResponse
    /\ OutcomeCode \in endpoint.responseCodeSchemas
    /\ OutcomeBody = "bad"
    /\ res.body = Plain("bad")
    /\ nextCalls = <<>>

\* The request in flight came to an end in a node middleware: it passed an
\* error on, or it answered and called nothing.
EndedInChain == outcome \in {"forwarded", "answered"}

\* C32: a request whose chain functions call next and whose handler's
\* result settles reaches an outcome, the success body emitted or an error
\* passed to next; a request whose handler's awaitable never settles stays
\* pending with neither, as nothing times it out or runs it again.
C32_SettlingRequestsTerminate ==
    /\ []((request # 0 /\ TheHandler.mode # "never")
            => <>(Emitted \/ Forwarded \/ EndedInChain))
    /\ []((handlerSaw # <<>> /\ TheHandler.mode = "never")
            => (pc = "await" /\ ~Emitted /\ ~Forwarded /\ Len(handlerSaw) = 1))

C32_Witness ==
    /\ request # 0
    /\ ran # <<>>
    /\ TheHandler.mode = "async"
    /\ Forwarded
    /\ ~Emitted

\* ----------------------------------------------------- the Router tree
\* The functions in the stack of the request in flight, the endpoint's own
\* middleware aside.
StackFunctions == {stack[i] : i \in 1..Len(stack)} \ {EndpointMiddleware}

\* The route() call that registered the route serving the request.
TheRoute == routed[table[request].route]

\* C33: the chain run for a request is the chain of the route's node as it
\* is when the request arrives: every function added with use or secure on
\* that node, before or after route() was called, is in it, next to the
\* functions the node inherited; a function added to an ancestor after the
\* group leading to the route was made is not.
C33_ChainIsReadWhenRequestArrives ==
    request # 0 =>
        /\ stack = Append(nodes[RouteNode].middleware, EndpointMiddleware)
        /\ StackFunctions =
              {m \in 1..Len(origins) :
                  /\ IsAncestorOrSelf(origins[m].node, RouteNode)
                  /\ m \notin AddedTooLate}
        /\ \A m \in 1..Len(origins) :
              (origins[m].node = RouteNode /\ origins[m].at > TheRoute.at)
                 => m \in StackFunctions

C33_Witness ==
    /\ request # 0
    /\ outcome = "endpoint"
    /\ \E m \in 1..Len(origins) :
          /\ origins[m].node = RouteNode
          /\ origins[m].at > TheRoute.at
          /\ \E i \in 1..Len(ran) : ran[i] = m

\* The operation of route() call r carries the requirement of secure() call k.
Documented(r, k) ==
    \E j \in 1..Len(r.operation.security.list) :
        r.operation.security.list[j] = Requirement(secured[k].name, secured[k].requirement)

\* The middleware given to secure() call k is in the chain a request to the
\* route of call r runs.
Enforced(r, k) ==
    \E i \in 1..Len(nodes[r.node].middleware) :
        origins[nodes[r.node].middleware[i]].at = secured[k].at

\* C34 (as stated): for every registered route and every secure() call, the
\* route's operation carries the requirement of the call's scheme exactly
\* when the call's middleware runs for requests to the route.  Calls that
\* share their scheme name with another call, and endpoints whose
\* operation() states its own security, are left aside.
C34_SecurityDocumentedIffEnforced ==
    \A i \in Registered, k \in 1..Len(secured) :
        (/\ \A k2 \in 1..Len(secured) : k2 # k => secured[k2].name # secured[k].name
         /\ ~routed[i].endpoint.operation.security.declared)
           => (Documented(routed[i], k) <=> Enforced(routed[i], k))

\* C35 (as stated): the operation the document holds under the path and
\* method of a request is the operation of the registration whose endpoint
\* handles the request, also when the same path and method was registered
\* more than once.
C35_DocumentedOperationIsTheOneServing ==
    (request # 0 /\ outcome = "endpoint") =>
        getSpec(1).paths[<<TheRoute.path, table[request].method>>] = TheRoute.operation

====
